---- MODULE Spec2Model ----
(***************************************************************************)
(* NetSource: the duplex audio engine (services/audio.py), its sample      *)
(* buffers (utils/audio/buffers.py) and the broadcast-window controller    *)
(* (services/schedule.py), modelled as a state machine.                    *)
(*                                                                         *)
(* The engine object is the record Engine; every method of AudioService is *)
(* an operator from an engine record to the engine record it leaves        *)
(* behind, and every action installs the result of one method call.        *)
(***************************************************************************)
EXTENDS Integers, Sequences, FiniteSets, TLC

\* ---------------------------------------------------------------- bounds
MaxOpen == 2        \* open stream pairs tracked before start() is held back
MaxWrites == 1      \* capture callbacks that write into one relay buffer
MaxPlaylist == 1    \* tones queued at once
MaxBlock == 1       \* samples per channel of one block written on the bench
MaxBenchWrites == 2 \* writes of one bench run
MaxBenchReads == 3  \* reads of one bench run
MaxStarts == 2      \* calls of ScheduleService.start(), each of which spawns a thread
MaxStops == 1       \* calls of ScheduleService.stop()
MaxTicks == 1       \* steps of the clock

\* ------------------------------------------------------ program constants
STEREO == 2
PreloadLength == 500
Int16Max == 32767

\* AudioEngineState
Stopped == "STOP"
Started == "START"
Error == "ERROR"
FadeIn == "FADE_IN"
FadeOut == "FADE_OUT"
Relaying == "RELAYING"
AudioEngineState == {Stopped, Started, Error, FadeIn, FadeOut, Relaying}

\* -------------------------------------------------------------- instants
\* an instant is a whole number of seconds since a Monday 00:00:00
Minute == 60
Hour == 60 * Minute
Day == 24 * Hour
Week == 7 * Day
Monday == 0
Sunday == 6

HMS(h, m, s) == (h * Hour) + (m * Minute) + s
At(week, day, time) == (week * Week) + (day * Day) + time
Weekday(t) == (t \div Day) % 7
TimeOfDay(t) == t % Day
None == -1

\* ---------------------------------------------------------------- helpers
Min(a, b) == IF a < b THEN a ELSE b
Max(a, b) == IF a > b THEN a ELSE b
Zeros(n) == [i \in 1..n |-> 0]
\* s[:n]
Take(s, n) == SubSeq(s, 1, Min(n, Len(s)))
\* s[n:]
Drop(s, n) == SubSeq(s, Min(n, Len(s)) + 1, Len(s))
\* s[idx::step], idx counted from 0
Stride(s, idx, step) ==
    [i \in 1..((Len(s) - idx + step - 1) \div step) |-> s[idx + (i - 1) * step + 1]]
\* np.add of two equal-length int16 blocks (wraps at 16 bits)
Wrap16(x) == ((x + 32768) % 65536) - 32768
NpAdd(a, b) == [i \in 1..Min(Len(a), Len(b)) |-> Wrap16(a[i] + b[i])]

\* ------------------------------------------------------------- SoundCard
SoundCard(i, n, c, e) == [id |-> i, name |-> n, channels |-> c, engine |-> e]
\* Python's None in a device field
NoDevice == [id |-> -1, name |-> "None", channels |-> 0, engine |-> "None"]
\* one card and the four cards that differ from it in exactly one field
SoundCards ==
    { SoundCard(0, "a", 2, "ALSA"),
      SoundCard(1, "a", 2, "ALSA"),
      SoundCard(0, "b", 2, "ALSA"),
      SoundCard(0, "a", 1, "ALSA"),
      SoundCard(0, "a", 2, "JACK") }
\* the cards the engine specification selects among: a stereo and a mono
\* capture card, one playback card
InputCards == { SoundCard(0, "a", 2, "ALSA"), SoundCard(0, "a", 1, "ALSA") }
OutputCards == { SoundCard(0, "a", 2, "ALSA") }

SoundCardEqById(a, b) == a.id = b.id
\* pydantic BaseModel.__eq__: every field
SoundCardEq(a, b) ==
    /\ a.id = b.id
    /\ a.name = b.name
    /\ a.channels = b.channels
    /\ a.engine = b.engine
Truthy(d) == d # NoDevice

\* ------------------------------------------------ PlayThroughSampleBuffer
\* self.__buffer before the first fade_in: the attribute does not exist
NoBuffer == [set |-> FALSE, left |-> <<>>, right |-> <<>>]

PlayThroughSampleBuffer_clear_buffer(preload_length) ==
    [set |-> TRUE, left |-> Zeros(preload_length), right |-> Zeros(preload_length)]

PlayThroughSampleBuffer_init(preload_length) ==
    PlayThroughSampleBuffer_clear_buffer(preload_length)

\* the result is [out |-> <<left, right>>, buf |-> the buffer afterwards,
\* underrun |-> whether the underrun branch ran]
ReadResetsToPreload(b, sample_count) ==
    LET buffer_length == Min(Len(b.left), Len(b.right))
        underrun_length == sample_count - buffer_length
    IN  IF sample_count > buffer_length
        THEN [out |-> << Zeros(underrun_length) \o b.left,
                         Zeros(underrun_length) \o b.right >>,
              buf |-> PlayThroughSampleBuffer_clear_buffer(PreloadLength),
              underrun |-> TRUE]
        ELSE [out |-> << Take(b.left, sample_count), Take(b.right, sample_count) >>,
              buf |-> [b EXCEPT !.left = Drop(b.left, sample_count),
                                !.right = Drop(b.right, sample_count)],
              underrun |-> FALSE]

ReadPadsRight(b, sample_count) ==
    LET buffer_length == Min(Len(b.left), Len(b.right))
        underrun_length == sample_count - buffer_length
    IN  IF sample_count > buffer_length
        THEN [out |-> << b.left \o Zeros(underrun_length),
                         b.right \o Zeros(underrun_length) >>,
              buf |-> PlayThroughSampleBuffer_clear_buffer(0),
              underrun |-> TRUE]
        ELSE [out |-> << Take(b.left, sample_count), Take(b.right, sample_count) >>,
              buf |-> [b EXCEPT !.left = Drop(b.left, sample_count),
                                !.right = Drop(b.right, sample_count)],
              underrun |-> FALSE]

PlayThroughSampleBuffer_read(b, sample_count) ==
    LET buffer_length == Min(Len(b.left), Len(b.right))
        underrun_length == sample_count - buffer_length
    IN  IF sample_count > buffer_length
        THEN [out |-> << Zeros(underrun_length) \o b.left,
                         Zeros(underrun_length) \o b.right >>,
              buf |-> PlayThroughSampleBuffer_clear_buffer(0),
              underrun |-> TRUE]
        ELSE [out |-> << Take(b.left, sample_count), Take(b.right, sample_count) >>,
              buf |-> [b EXCEPT !.left = Drop(b.left, sample_count),
                                !.right = Drop(b.right, sample_count)],
              underrun |-> FALSE]

WritePrepends(b, samples) ==
    [b EXCEPT !.left = samples[1] \o @, !.right = samples[2] \o @]

PlayThroughSampleBuffer_write(b, samples) ==
    [b EXCEPT !.left = @ \o samples[1], !.right = @ \o samples[2]]

\* ------------------------------------------------------- ToneSampleBuffer
\* sin(2*pi*i*frequency/sample_rate) for frequency = sample_rate / 4
QuarterSine == <<0, 1, 0, -1>>

\* a tone of sample_count = int(sample_rate * length) samples at a quarter of
\* the sample rate and 0 dBFS: amplitude = iinfo(int16).max * 10 ** (0 / 20)
ToneSampleBuffer_init(sample_count) ==
    LET samples == [i \in 1..sample_count |-> QuarterSine[((i - 1) % 4) + 1] * Int16Max]
    IN  [left |-> samples, right |-> samples]

\* a read that returns the slice and leaves the samples where they were
ToneReadKeepsSamples(t, sample_count) ==
    [out |-> << Take(t.left, sample_count), Take(t.right, sample_count) >>, item |-> t]

\* the result is [out |-> <<left, right>>, item |-> the tone afterwards]
ToneSampleBuffer_read(t, sample_count) ==
    LET buffer_length == Min(Len(t.left), Len(t.right))
    IN  IF sample_count > buffer_length
        THEN [out |-> << t.left, t.right >>, item |-> t]
        ELSE [out |-> << Take(t.left, sample_count), Take(t.right, sample_count) >>,
              item |-> [left |-> Drop(t.left, sample_count),
                        right |-> Drop(t.right, sample_count)]]

\* --------------------------------------------------------- AudioConverter
\* frames is the int16 view of the bytes (np.frombuffer)
bytes_to_deinterleaved(frames, channel_count) ==
    [idx \in 1..channel_count |-> Stride(frames, idx - 1, channel_count)]

\* ----------------------------------------------------------- AudioService
VARIABLES
    state,          \* __state
    input_device,   \* __input_device
    output_device,  \* __output_device
    stream_in,      \* __stream_in: "unset" (no such attribute), "none" or "open"
    stream_out,     \* __stream_out: likewise
    capture,        \* channel counts of the capture streams open in the host, oldest first
    openOut,        \* number of playback streams open in the host
    buffer,         \* __buffer
    playlist,       \* __playlist
    ctl,            \* the control thread's position inside stop()
    last,           \* the call that ended last: its name, entry state and outcome
    rb,             \* test bench of a stand-alone PlayThroughSampleBuffer
    pb,             \* record of a playlist drain: the tones queued, the fills served
    sched,          \* ScheduleService: __status and __run_schedule
    jobs,           \* schedule.jobs, the job list of the default scheduler
    settings,       \* what SettingsService.get() returns
    clock,          \* datetime.now()
    poll,           \* the threads start() has spawned, each inside __run
    slast,          \* the schedule call that ended last, what it computed, and tallies
    obs,            \* the observer lists of both services and what each observer received
    cb,             \* record of the stream callback that ended last
    hand,           \* a capture and a playback thread inside the relay buffer's write and read
    drain           \* the playback thread's position inside __play_playlist

vars == << state, input_device, output_device, stream_in, stream_out, capture,
           openOut, buffer, playlist, ctl, last, rb, pb, sched, jobs, settings,
           clock, poll, slast, obs, cb, hand, drain >>

\* the variables no engine method touches
controller == << sched, jobs, settings, clock, poll, slast >>
\* the records of single callbacks and of threads inside one
probes == << cb, hand, drain >>
aside == << pb, obs, probes, controller >>

\* the engine object, as a method sees it
Engine ==
    [state |-> state, input_device |-> input_device, output_device |-> output_device,
     stream_in |-> stream_in, stream_out |-> stream_out, capture |-> capture,
     openOut |-> openOut, buffer |-> buffer, playlist |-> playlist]

Install(e) ==
    /\ state' = e.state
    /\ input_device' = e.input_device
    /\ output_device' = e.output_device
    /\ stream_in' = e.stream_in
    /\ stream_out' = e.stream_out
    /\ capture' = e.capture
    /\ openOut' = e.openOut
    /\ buffer' = e.buffer
    /\ playlist' = e.playlist

\* AudioService.instance()
instance ==
    [state |-> Stopped, input_device |-> NoDevice, output_device |-> NoDevice,
     stream_in |-> "unset", stream_out |-> "unset", capture |-> <<>>,
     openOut |-> 0, buffer |-> NoBuffer, playlist |-> <<>>]

calculate_channel_count(e, input) ==
    IF input THEN Min(e.input_device.channels, STEREO) ELSE STEREO

DevicesSetInputOnly(e) == Truthy(e.input_device)
DevicesSet(e) == Truthy(e.input_device) /\ Truthy(e.output_device)

start(e) ==
    IF ~DevicesSet(e)
    THEN e
    ELSE [e EXCEPT !.stream_in = "open",
                   !.capture = Append(@, calculate_channel_count(e, TRUE)),
                   !.stream_out = "open",
                   !.openOut = @ + 1,
                   !.state = Started]

FadeInUnguarded(e) ==
    [e EXCEPT !.buffer = PlayThroughSampleBuffer_init(PreloadLength), !.state = FadeIn]

fade_in(e) ==
    IF ~(e.state = Started)
    THEN e
    ELSE [e EXCEPT !.buffer = PlayThroughSampleBuffer_init(PreloadLength),
                   !.state = FadeIn]

fade_out(e) ==
    IF ~(e.state = Relaying)
    THEN e
    ELSE [e EXCEPT !.state = FadeOut]

\* stop(), lines 157-158
stop_fade(e) == IF e.state = Relaying THEN fade_out(e) ELSE e

\* `if self.__stream_in:` on an engine that never ran start(): AttributeError
StopRaises(e) == e.stream_in = "unset"

\* stop(), lines 160-167
stop_close(e) ==
    IF StopRaises(e)
    THEN e
    ELSE LET e1 == IF e.stream_in = "open"
                   THEN [e EXCEPT !.capture = SubSeq(@, 1, Len(@) - 1),
                                  !.stream_in = "none"]
                   ELSE e
         IN  IF e1.stream_out = "open"
             THEN [e1 EXCEPT !.openOut = @ - 1, !.stream_out = "none"]
             ELSE e1

stop(e) == stop_close(stop_fade(e))

set_input_device(e, sound_card) ==
    IF SoundCardEq(e.input_device, sound_card)
    THEN e
    ELSE IF e.state = Started /\ StopRaises(stop_fade(e))
    THEN e
    ELSE LET e1 == IF e.state = Started THEN stop(e) ELSE e
         IN  start([e1 EXCEPT !.input_device = sound_card])

set_output_device(e, sound_card) ==
    IF SoundCardEq(e.output_device, sound_card)
    THEN e
    ELSE IF e.state = Started /\ StopRaises(stop_fade(e))
    THEN e
    ELSE LET e1 == IF e.state = Started THEN stop(e) ELSE e
         IN  start([e1 EXCEPT !.output_device = sound_card])

play_tone(e, sample_count) ==
    [e EXCEPT !.playlist = Append(@, ToneSampleBuffer_init(sample_count))]

\* the loop of __play_playlist; the result is [playlist, left, right]
RECURSIVE play_playlist_loop(_, _, _, _, _)
play_playlist_loop(pl, frame_count, samples_remaining, left, right) ==
    IF samples_remaining = 0
    THEN [playlist |-> pl, left |-> left, right |-> right]
    ELSE IF pl = <<>>
    THEN [playlist |-> pl,
          left |-> left \o Zeros(samples_remaining),
          right |-> right \o Zeros(samples_remaining)]
    ELSE LET r == ToneSampleBuffer_read(Head(pl), samples_remaining)
             left1 == left \o Take(r.out[1], samples_remaining)
             right1 == right \o Take(r.out[2], samples_remaining)
             remaining1 == Max(0, frame_count - Len(left1))
         IN  IF remaining1 = 0
             THEN play_playlist_loop(<<r.item>> \o Tail(pl), frame_count, remaining1,
                                     left1, right1)
             ELSE play_playlist_loop(Tail(pl), frame_count, remaining1, left1, right1)

\* a fill that goes back to silence once the item at the head is used up
PlayPlaylistOneItem(e, frame_count) ==
    IF e.playlist = <<>>
    THEN [e |-> e, data |-> << Zeros(frame_count), Zeros(frame_count) >>]
    ELSE LET r == ToneSampleBuffer_read(Head(e.playlist), frame_count)
             left == Take(r.out[1], frame_count)
             right == Take(r.out[2], frame_count)
         IN  [e |-> [e EXCEPT !.playlist =
                        IF Len(left) = frame_count
                        THEN <<r.item>> \o Tail(e.playlist)
                        ELSE Tail(e.playlist)],
              data |-> << left \o Zeros(frame_count - Len(left)),
                          right \o Zeros(frame_count - Len(right)) >>]

\* the result is [e |-> the engine afterwards, data |-> <<left, right>>]
play_playlist(e, frame_count) ==
    LET r == play_playlist_loop(e.playlist, frame_count, frame_count, <<>>, <<>>)
    IN  [e |-> [e EXCEPT !.playlist = r.playlist], data |-> << r.left, r.right >>]

\* a relay that leaves the fade as it found it
RelayKeepsFade(e, frame_count, data) ==
    LET r == PlayThroughSampleBuffer_read(e.buffer, frame_count)
    IN  [e |-> [e EXCEPT !.buffer = r.buf],
         data |-> << NpAdd(data[1], Take(r.out[1], frame_count)),
                     NpAdd(data[2], Take(r.out[2], frame_count)) >>]

relay(e, frame_count, data) ==
    LET r == PlayThroughSampleBuffer_read(e.buffer, frame_count)
        left == NpAdd(data[1], Take(r.out[1], frame_count))
        right == NpAdd(data[2], Take(r.out[2], frame_count))
        e1 == [e EXCEPT !.buffer = r.buf]
        e2 == IF e1.state = FadeIn THEN [e1 EXCEPT !.state = Relaying] ELSE e1
        e3 == IF e2.state = FadeOut THEN [e2 EXCEPT !.state = Started] ELSE e2
    IN  [e |-> e3, data |-> << left, right >>]

\* output[0::2] = data[0]; output[1::2] = data[1]
Interleave(data) ==
    [i \in 1..(2 * Len(data[1])) |->
        IF i % 2 = 1 THEN data[1][(i + 1) \div 2] ELSE data[2][i \div 2]]

\* a playback callback that also drains the playlist while relaying
PlaysPlaylistWhileRelaying(e, frame_count) ==
    LET blank == [e |-> e, data |-> << Zeros(frame_count), Zeros(frame_count) >>]
        r1 == IF e.state \in {FadeIn, Relaying, FadeOut}
              THEN relay(e, frame_count, blank.data)
              ELSE blank
        r2 == IF r1.e.state \in {Started, Relaying}
              THEN play_playlist(r1.e, frame_count)
              ELSE r1
    IN  [e |-> r2.e, out |-> Interleave(r2.data)]

\* the result is [e |-> the engine afterwards, out |-> the interleaved block]
play_callback(e, frame_count) ==
    LET blank == [e |-> e, data |-> << Zeros(frame_count), Zeros(frame_count) >>]
        r1 == IF e.state \in {FadeIn, Relaying, FadeOut}
              THEN relay(e, frame_count, blank.data)
              ELSE blank
        r2 == IF r1.e.state \in {Started}
              THEN play_playlist(r1.e, frame_count)
              ELSE r1
    IN  [e |-> r2.e, out |-> Interleave(r2.data)]

\* a capture callback that writes whatever the state
RecordInAnyState(e, in_data) ==
    LET deinterleved == bytes_to_deinterleaved(in_data, calculate_channel_count(e, TRUE))
    IN  [e |-> [e EXCEPT !.buffer =
                    PlayThroughSampleBuffer_write(@,
                        << deinterleved[1], deinterleved[Len(deinterleved)] >>)],
         out |-> in_data]

\* the result is [e |-> the engine afterwards, out |-> the frames returned]
record_callback(e, in_data) ==
    LET deinterleved == bytes_to_deinterleaved(in_data, calculate_channel_count(e, TRUE))
        stereo_deinterleved ==
            IF Len(deinterleved) > 1
            THEN deinterleved
            ELSE << deinterleved[1], deinterleved[1] >>
    IN  [e |-> IF e.state \in {FadeIn, Relaying, FadeOut}
               THEN [e EXCEPT !.buffer =
                        PlayThroughSampleBuffer_write(@, stereo_deinterleved)]
               ELSE e,
         out |-> in_data]

\* -------------------------------------------------------------- observers
\* an operator of this section takes the observer record o and returns the
\* record the call leaves behind
Contains(list, x) == \E i \in 1..Len(list) : list[i] = x

\* list.remove(x): the first occurrence goes
RECURSIVE list_remove(_, _)
list_remove(list, x) ==
    IF list = <<>>
    THEN <<>>
    ELSE IF Head(list) = x
    THEN Tail(list)
    ELSE << Head(list) >> \o list_remove(Tail(list), x)

\* ScheduleService.deregister_callback
deregister_callback(o, callback) ==
    IF Contains(o.callbacks, callback)
    THEN [o EXCEPT !.callbacks = list_remove(@, callback)]
    ELSE o

\* AudioService.register_levels_callback
register_levels_callback(o, input, callback) ==
    IF input
    THEN [o EXCEPT !.level_callbacks_input = Append(@, callback)]
    ELSE [o EXCEPT !.level_callbacks_output = Append(@, callback)]

\* AudioService.deregister_levels_callback
deregister_levels_callback(o, input, callback) ==
    IF input /\ Contains(o.level_callbacks_input, callback)
    THEN [o EXCEPT !.level_callbacks_input = list_remove(@, callback)]
    ELSE IF ~input /\ Contains(o.level_callbacks_output, callback)
    THEN [o EXCEPT !.level_callbacks_output = list_remove(@, callback)]
    ELSE o

\* callback(status) of a status observer: it takes note of the status; inside
\* the loop of __set_status a `once` observer deregisters itself
status_callback(o, callback, status, looping) ==
    LET o1 == [o EXCEPT !.got[callback] = status]
        o2 == IF looping THEN [o1 EXCEPT !.event.delivered = Append(@, callback)] ELSE o1
    IN  IF looping /\ callback.once THEN deregister_callback(o2, callback) ELSE o2

\* callback(vol_left, vol_right) of a level observer
levels_callback(o, input, callback) ==
    LET o1 == [o EXCEPT !.event.delivered = Append(@, callback)]
    IN  IF callback.once THEN deregister_levels_callback(o1, input, callback) ELSE o1

\* ScheduleService.register_callback
register_callback(o, callback, status) ==
    status_callback([o EXCEPT !.callbacks = Append(@, callback)], callback, status, FALSE)

\* `for callback in self.__callbacks`: the list iterator holds an index into
\* the list and ends once the index is no longer inside it
RECURSIVE set_status_loop(_, _, _)
set_status_loop(o, i, status) ==
    IF i > Len(o.callbacks)
    THEN o
    ELSE set_status_loop(status_callback(o, o.callbacks[i], status, TRUE), i + 1, status)

\* the observers' side of ScheduleService.__set_status
set_status(o, status) ==
    IF o.callbacks = <<>>
    THEN o
    ELSE set_status_loop([o EXCEPT !.event = [kind |-> "status", value |-> status,
                                              registered |-> o.callbacks,
                                              delivered |-> <<>>]],
                         1, status)

LevelCallbacks(o, input) ==
    IF input THEN o.level_callbacks_input ELSE o.level_callbacks_output

\* `for callback in self.__level_callbacks_input` (or _output)
RECURSIVE levels_loop(_, _, _)
levels_loop(o, i, input) ==
    IF i > Len(LevelCallbacks(o, input))
    THEN o
    ELSE levels_loop(levels_callback(o, input, LevelCallbacks(o, input)[i]), i + 1, input)

\* the loop that ends __record_callback (input) and __play_callback (output);
\* the levels passed are not part of the record
publish_levels(o, input) ==
    IF LevelCallbacks(o, input) = <<>>
    THEN o
    ELSE levels_loop([o EXCEPT !.event = [kind |-> IF input THEN "input" ELSE "output",
                                          value |-> "levels",
                                          registered |-> LevelCallbacks(o, input),
                                          delivered |-> <<>>]],
                     1, input)

\* ---------------------------------------------------------------- actions
\* op: the method; from: the state it was entered in; arg, was: the card passed
\* to a set_*_device call and the card selected before it; raised: whether it
\* ended in an exception
Call(op, from, arg, was, raised) ==
    [op |-> op, from |-> from, arg |-> arg, was |-> was, raised |-> raised]
NoCall == Call("instance", Stopped, NoDevice, NoDevice, FALSE)

\* pc: "idle", or "stop_close" between stop()'s forced fade_out and its stream
\* teardown; from: the state stop() was entered in; writes: capture callbacks
\* that wrote into the relay buffer since the fade_in() that constructed it
Idle == [pc |-> "idle", from |-> Stopped, writes |-> 0]

\* the bench before its buffer is constructed: idle while the engine runs.
\* buf: the buffer under test; written, got: per channel, every sample written
\* and every sample the reads returned, in order; writes, reads: calls so far;
\* asked: the sum of the sample counts read; op, k, held, out: the last call,
\* its sample_count, the content before it and the blocks it returned;
\* underruns: reads that took the underrun branch; mixed: whether a write
\* followed a read
RbIdle ==
    [buf |-> NoBuffer, written |-> << <<>>, <<>> >>, got |-> << <<>>, <<>> >>,
     writes |-> 0, reads |-> 0, asked |-> 0, op |-> "none", k |-> 0,
     held |-> << <<>>, <<>> >>, out |-> << <<>>, <<>> >>,
     underruns |-> 0, mixed |-> FALSE]

\* the drain record before anything is queued. queued, got: per channel, every
\* sample of the tones queued and every sample the fills returned, in order;
\* tones, fills: calls so far; asked: the sum of the frame counts filled; op,
\* n, held, out: the last call, its frame count, the playlist before it and
\* the block it returned; mixed: whether a tone was queued after a fill
PbIdle ==
    [queued |-> << <<>>, <<>> >>, got |-> << <<>>, <<>> >>, tones |-> 0,
     fills |-> 0, asked |-> 0, op |-> "none", n |-> 0, held |-> <<>>,
     out |-> << <<>>, <<>> >>, mixed |-> FALSE]

\* Settings(): the defaults of the model
DefaultSettings ==
    [day_start |-> Sunday, time_start |-> HMS(19, 2, 1),
     day_end |-> Sunday, time_end |-> HMS(20, 59, 53)]

\* the controller as ScheduleService.instance() leaves it
ScheduleInstance == [status |-> Stopped, run_schedule |-> FALSE]

\* a thread that is not running, and one inside __run. pc: "none", "loop" (at
\* the test of the while loop, or asleep before it) or "run" (inside
\* run_pending); todo: the runnable jobs run_pending has still to run
NoThread == [pc |-> "none", todo |-> <<>>]
PollNone == [i \in 1..MaxStarts |-> NoThread]

NoJob == [gen |-> None, func |-> "none", unit |-> "none", day |-> None, at |-> None,
          next_run |-> None, cancel_after |-> None]

\* op: "start", "stop", "run_job" or "none"; handler: the method that ran
\* inside it; now: the instant it ran at; open, last_start, following_finish:
\* what start() worked out; next_start, beeps_end: what end_show() worked
\* out; raised: whether it ended in an exception; job, pending, acted: the job
\* a polling thread ran, whether the job list still held it and whether its
\* method was called; was: the engine state before; starts, stops, ticks: calls
\* so far; gen: calls of schedule.clear() so far
NoScheduleCall ==
    [op |-> "none", handler |-> "none", now |-> None, open |-> FALSE,
     last_start |-> None, following_finish |-> None, next_start |-> None,
     beeps_end |-> None, raised |-> FALSE, job |-> NoJob, pending |-> FALSE,
     acted |-> FALSE, was |-> Stopped, starts |-> 0, stops |-> 0, ticks |-> 0,
     gen |-> 0]

\* the callables a caller registers: id tells them apart; a `once` observer
\* deregisters itself inside the first notification a notifying loop gives it
Observers == { [id |-> 1, once |-> TRUE], [id |-> 2, once |-> FALSE] }

\* kind: "status", "input" or "output"; value: the status published;
\* registered: the list when the loop began; delivered: the observers called,
\* in order
NoEvent == [kind |-> "none", value |-> "none", registered |-> <<>>, delivered |-> <<>>]

\* callbacks: ScheduleService.__callbacks; level_callbacks_input,
\* level_callbacks_output: the lists of AudioService; got: the status each
\* observer received last; event: the notifying loop that ran last; regs:
\* registrations so far
ObsIdle ==
    [callbacks |-> <<>>, level_callbacks_input |-> <<>>, level_callbacks_output |-> <<>>,
     got |-> [o \in Observers |-> "none"], event |-> NoEvent, regs |-> 0]

\* op: "record_callback", "play_callback" or "fade_in"; from: the state the
\* call began in; n: its frame count; in_data, ret: the frames passed in and
\* the frames returned; buffer, playlist: the relay buffer and the playlist
\* the call found; relay: the blocks a playback callback read from the relay
\* buffer
CbIdle ==
    [op |-> "none", from |-> Stopped, n |-> 0, in_data |-> <<>>, ret |-> <<>>,
     buffer |-> NoBuffer, playlist |-> <<>>, relay |-> << <<>>, <<>> >>]
\* w: the capture thread inside PlayThroughSampleBuffer.write: pc, the blocks
\* passed and the array np.append has built but not yet assigned; r: the
\* playback thread inside read: pc, sample_count, len(__samples_left),
\* buffer_length, the locals left and right, and the slice not yet assigned
HandIdle ==
    [w |-> [pc |-> "idle", samples |-> << <<>>, <<>> >>, tmp |-> <<>>],
     r |-> [pc |-> "idle", sample_count |-> 0, len_left |-> 0, buffer_length |-> 0,
            left |-> <<>>, right |-> <<>>, tmp |-> <<>>]]
\* no item in hand
NoItem == [left |-> <<>>, right |-> <<>>]

\* pc: "idle", or the statement of __play_playlist the playback thread is at:
\* "pop", "read" or "insert"; frame_count, samples_remaining, left, right,
\* current_item: its locals; taken: per channel, every sample read out of an
\* item so far, in order; mark: how many of them before the call under way
DrainIdle ==
    [pc |-> "idle", frame_count |-> 0, samples_remaining |-> 0, left |-> <<>>,
     right |-> <<>>, current_item |-> NoItem, taken |-> << <<>>, <<>> >>, mark |-> 0]

AsideIdle ==
    /\ pb = PbIdle
    /\ obs = ObsIdle
    /\ cb = CbIdle
    /\ hand = HandIdle
    /\ drain = DrainIdle
    /\ sched = ScheduleInstance
    /\ jobs = <<>>
    /\ settings = DefaultSettings
    /\ clock = 0
    /\ poll = PollNone
    /\ slast = NoScheduleCall

\* frame counts of a playback callback
FrameCounts == { PreloadLength \div 2, PreloadLength + 1 }
\* frame counts of a capture callback
CaptureFrameCounts == { 1 }
\* sample counts of the tones requested
ToneCounts == { 2 }

\* the int16 frames of a capture block: 1, 2, 3, ...
Ramp(n) == [i \in 1..n |-> i]

\* the engine as AudioService.instance() leaves it, the control thread idle
EngineInit ==
    /\ state = instance.state
    /\ input_device = instance.input_device
    /\ output_device = instance.output_device
    /\ stream_in = instance.stream_in
    /\ stream_out = instance.stream_out
    /\ capture = instance.capture
    /\ openOut = instance.openOut
    /\ buffer = instance.buffer
    /\ playlist = instance.playlist
    /\ ctl = Idle
    /\ last = NoCall

Init == EngineInit /\ rb = RbIdle /\ AsideIdle

SetInputDevice(sound_card) ==
    /\ ctl.pc = "idle"
    /\ LET e == set_input_device(Engine, sound_card)
       IN  /\ Len(e.capture) <= MaxOpen
           /\ Install(e)
    /\ last' = Call("set_input_device", state, sound_card, input_device, FALSE)
    /\ UNCHANGED << ctl, rb, aside >>

SetOutputDevice(sound_card) ==
    /\ ctl.pc = "idle"
    /\ LET e == set_output_device(Engine, sound_card)
       IN  /\ Len(e.capture) <= MaxOpen
           /\ Install(e)
    /\ last' = Call("set_output_device", state, sound_card, output_device, FALSE)
    /\ UNCHANGED << ctl, rb, aside >>

Start ==
    /\ ctl.pc = "idle"
    /\ LET e == start(Engine)
       IN  /\ Len(e.capture) <= MaxOpen
           /\ Install(e)
    /\ last' = Call("start", state, NoDevice, NoDevice, FALSE)
    /\ UNCHANGED << ctl, rb, aside >>

\* stop() up to the forced fade_out; the callbacks run on the host's threads
\* and may be served before the streams are closed
StopBegin ==
    /\ ctl.pc = "idle"
    /\ Install(stop_fade(Engine))
    /\ ctl' = [ctl EXCEPT !.pc = "stop_close", !.from = state]
    /\ last' = Call("stop", state, NoDevice, NoDevice, FALSE)
    /\ UNCHANGED << rb, aside >>

\* stop() from the stream tests to its return
StopClose ==
    /\ ctl.pc = "stop_close"
    /\ Install(stop_close(Engine))
    /\ ctl' = [ctl EXCEPT !.pc = "idle"]
    /\ last' = Call("stop", ctl.from, NoDevice, NoDevice, StopRaises(Engine))
    /\ UNCHANGED << rb, aside >>

DoFadeIn ==
    /\ ctl.pc = "idle"
    /\ Install(fade_in(Engine))
    /\ ctl' = [ctl EXCEPT !.writes = IF state = Started THEN 0 ELSE @]
    /\ last' = Call("fade_in", state, NoDevice, NoDevice, FALSE)
    /\ UNCHANGED << rb, aside >>

DoFadeOut ==
    /\ ctl.pc = "idle"
    /\ Install(fade_out(Engine))
    /\ last' = Call("fade_out", state, NoDevice, NoDevice, FALSE)
    /\ UNCHANGED << ctl, rb, aside >>

PlayTone(sample_count) ==
    /\ ctl.pc = "idle"
    /\ Len(playlist) < MaxPlaylist
    /\ Install(play_tone(Engine, sample_count))
    /\ last' = Call("play_tone", state, NoDevice, NoDevice, FALSE)
    /\ UNCHANGED << ctl, rb, aside >>

\* a capture stream opened with `channels` channels delivers frame_count frames
RecordCallback(channels, frame_count) ==
    /\ \E i \in 1..Len(capture) : capture[i] = channels
    /\ LET r == record_callback(Engine, Ramp(frame_count * channels))
       IN  /\ r.e.buffer # buffer => ctl.writes < MaxWrites
           /\ Install(r.e)
           /\ ctl' = [ctl EXCEPT !.writes = IF r.e.buffer # buffer THEN @ + 1 ELSE @]
    /\ last' = Call("record_callback", state, NoDevice, NoDevice, FALSE)
    /\ obs' = publish_levels(obs, TRUE)
    /\ UNCHANGED << rb, pb, probes, controller >>

PlayCallback(frame_count) ==
    /\ openOut > 0
    /\ Install(play_callback(Engine, frame_count).e)
    /\ last' = Call("play_callback", state, NoDevice, NoDevice, FALSE)
    /\ obs' = publish_levels(obs, FALSE)
    /\ UNCHANGED << ctl, rb, pb, probes, controller >>

Next ==
    \/ \E sound_card \in InputCards : SetInputDevice(sound_card)
    \/ \E sound_card \in OutputCards : SetOutputDevice(sound_card)
    \/ Start
    \/ StopBegin
    \/ StopClose
    \/ DoFadeIn
    \/ DoFadeOut
    \/ \E sample_count \in ToneCounts : PlayTone(sample_count)
    \/ \E channels \in 1..STEREO, frame_count \in CaptureFrameCounts :
            RecordCallback(channels, frame_count)
    \/ \E frame_count \in FrameCounts : PlayCallback(frame_count)

Spec == Init /\ [][Next]_vars

\* the device-selection specification: every card of SoundCards on both sides
NextDevices ==
    \/ \E sound_card \in SoundCards : SetInputDevice(sound_card)
    \/ \E sound_card \in SoundCards : SetOutputDevice(sound_card)
    \/ StopBegin
    \/ StopClose
    \/ DoFadeIn
    \/ DoFadeOut
    \/ \E frame_count \in FrameCounts : PlayCallback(frame_count)

SpecDevices == Init /\ [][NextDevices]_vars

\* --------------------------------------- PlayThroughSampleBuffer test bench
\* read sizes: a few samples, and around the preload
ReadSizes == (1..(MaxBlock + 1)) \cup { PreloadLength - 1, PreloadLength, PreloadLength + 1 }

\* lengths <<left, right>> of the blocks __record_callback hands to write():
\* a mono block duplicated, or n interleaved samples split between two channels
BlockShapes ==
    { << n, n >> : n \in 1..MaxBlock } \cup { << n, n - 1 >> : n \in 1..MaxBlock }

\* the samples of the next block: left 1, 2, 3, ... and right -1, -2, -3, ...
\* numbered on from what was written before, so that no two samples are alike
NextBlock(written, shape) ==
    << [i \in 1..shape[1] |-> Len(written[1]) + i],
       [i \in 1..shape[2] |-> 0 - (Len(written[2]) + i)] >>

\* the buffer as fade_in() constructs it
InitBench ==
    /\ EngineInit
    /\ rb = [RbIdle EXCEPT !.buf = PlayThroughSampleBuffer_init(PreloadLength)]
    /\ AsideIdle

BenchWrite(shape) ==
    /\ rb.writes < MaxBenchWrites
    /\ LET samples == NextBlock(rb.written, shape)
       IN  rb' = [rb EXCEPT
                    !.buf = PlayThroughSampleBuffer_write(@, samples),
                    !.written = << @[1] \o samples[1], @[2] \o samples[2] >>,
                    !.writes = @ + 1,
                    !.op = "write",
                    !.k = 0,
                    !.held = << rb.buf.left, rb.buf.right >>,
                    !.out = << <<>>, <<>> >>,
                    !.mixed = @ \/ rb.reads > 0]
    /\ UNCHANGED << state, input_device, output_device, stream_in, stream_out,
                    capture, openOut, buffer, playlist, ctl, last, aside >>

BenchRead(sample_count) ==
    /\ rb.reads < MaxBenchReads
    /\ LET r == PlayThroughSampleBuffer_read(rb.buf, sample_count)
       IN  rb' = [rb EXCEPT
                    !.buf = r.buf,
                    !.got = << @[1] \o r.out[1], @[2] \o r.out[2] >>,
                    !.reads = @ + 1,
                    !.asked = @ + sample_count,
                    !.op = "read",
                    !.k = sample_count,
                    !.held = << rb.buf.left, rb.buf.right >>,
                    !.out = r.out,
                    !.underruns = IF r.underrun THEN @ + 1 ELSE @]
    /\ UNCHANGED << state, input_device, output_device, stream_in, stream_out,
                    capture, openOut, buffer, playlist, ctl, last, aside >>

NextBench ==
    \/ \E shape \in BlockShapes : BenchWrite(shape)
    \/ \E sample_count \in ReadSizes : BenchRead(sample_count)

SpecBuffer == InitBench /\ [][NextBench]_vars

\* ------------------------------------------------------------ properties
StopReturned == last.op = "stop" /\ ctl.pc = "idle"

\* C1: every change of the engine state is one of the listed edges:
\* Stopped->Started by start (called directly or by set_*_device),
\* Started->FadeIn by fade_in, FadeIn->Relaying by a playback callback,
\* Relaying->FadeOut by fade_out or stop, FadeOut->Started by a playback
\* callback, or an edge taken by stop(); start() outside Stopped changes nothing.
C1_OnlyListedEdges ==
    [][state' # state =>
        \/ /\ state = Stopped /\ state' = Started
           /\ last'.op \in {"start", "set_input_device", "set_output_device"}
        \/ state = Started /\ state' = FadeIn /\ last'.op = "fade_in"
        \/ state = FadeIn /\ state' = Relaying /\ last'.op = "play_callback"
        \/ state = Relaying /\ state' = FadeOut /\ last'.op \in {"fade_out", "stop"}
        \/ state = FadeOut /\ state' = Started /\ last'.op = "play_callback"
        \/ last'.op = "stop"
      ]_vars

\* C2: fade_in() outside Started and fade_out() outside Relaying change neither
\* the engine state, nor the relay buffer, nor the playlist.
C2_InvalidFadeIsNoOp ==
    [][( \/ last'.op = "fade_in" /\ state # Started
         \/ last'.op = "fade_out" /\ state # Relaying )
       => /\ state' = state
          /\ buffer' = buffer
          /\ playlist' = playlist
      ]_vars

\* a fade_in() refused while relaying, with a buffer and a queued tone at stake
C2_Witness ==
    /\ last.op = "fade_in"
    /\ last.from = Relaying
    /\ state = Relaying
    /\ buffer.set
    /\ playlist # <<>>

\* C3: once stop() called in Relaying has returned, the state is Stopped.
C3_StopFromRelayingEndsStopped ==
    (StopReturned /\ last.from = Relaying /\ ~last.raised) => state = Stopped

\* C4: stop() raises no error in any state, and once it has returned no
\* capture and no playback stream is open.
C4_StopSafeAndCloses ==
    StopReturned => (~last.raised /\ capture = <<>> /\ openOut = 0)

\* C5: at most one capture stream and one playback stream are open.
C5_AtMostOneStreamPair == Len(capture) <= 1 /\ openOut <= 1

\* C6: a call of start() (direct, or made by set_*_device on a changed card)
\* with a device unset opens no stream and leaves the state Stopped; in Stopped
\* with both devices set it opens one capture and one playback stream and the
\* state becomes Started.
C6_StartNeedsBothDevices ==
    [][( \/ last'.op = "start"
         \/ last'.op = "set_input_device" /\ last'.arg # input_device
         \/ last'.op = "set_output_device" /\ last'.arg # output_device )
       => /\ (input_device' = NoDevice \/ output_device' = NoDevice)
                => /\ capture' = capture /\ openOut' = openOut
                   /\ stream_in' = stream_in /\ stream_out' = stream_out
                   /\ state = Stopped /\ state' = Stopped
          /\ (state = Stopped /\ input_device' # NoDevice /\ output_device' # NoDevice)
                => /\ Len(capture) = 0 /\ Len(capture') = 1
                   /\ openOut = 0 /\ openOut' = 1
                   /\ stream_in' = "open" /\ stream_out' = "open"
                   /\ state' = Started
      ]_vars

\* start() has just opened the first stream pair from Stopped
C6_Witness ==
    /\ last.op \in {"set_input_device", "set_output_device"}
    /\ last.from = Stopped
    /\ state = Started
    /\ Len(capture) = 1 /\ openOut = 1

\* start() has just been refused for want of the output device
C6_WitnessRefused ==
    /\ last.op = "start"
    /\ input_device # NoDevice /\ output_device = NoDevice
    /\ state = Stopped /\ capture = <<>>

\* C7: set_*_device with a card equal to the selected one in id, name, channels
\* and host API changes nothing; with a card that differs in any field the card
\* is reassigned and the engine restarted: stop() if Started, then start().
C7_DeviceComparedByValue ==
    [][/\ (last'.op = "set_input_device" /\ last'.arg = input_device)
            => Engine' = Engine
       /\ (last'.op = "set_input_device" /\ last'.arg # input_device)
            => Engine' = start([(IF state = Started THEN stop(Engine) ELSE Engine)
                                    EXCEPT !.input_device = last'.arg])
       /\ (last'.op = "set_output_device" /\ last'.arg = output_device)
            => Engine' = Engine
       /\ (last'.op = "set_output_device" /\ last'.arg # output_device)
            => Engine' = start([(IF state = Started THEN stop(Engine) ELSE Engine)
                                    EXCEPT !.output_device = last'.arg])
      ]_vars

\* a card that differs from the selected one in its name alone has been set on
\* a started engine, which was restarted on it
C7_Witness ==
    /\ last.op = "set_input_device"
    /\ last.from = Started
    /\ last.was # NoDevice
    /\ last.arg.name # last.was.name
    /\ last.arg.id = last.was.id
    /\ last.arg.channels = last.was.channels
    /\ last.arg.engine = last.was.engine
    /\ input_device = last.arg
    /\ state = Started /\ stream_in = "open"

\* the samples written so far that both channels hold
WrittenBoth == Min(Len(rb.written[1]), Len(rb.written[2]))
\* the last bench call was a read of more than the buffer held
UnderrunRead == rb.op = "read" /\ rb.k > Min(Len(rb.held[1]), Len(rb.held[2]))

\* C8 as stated: after writes of total length N, reads whose sizes sum to at
\* most N return exactly the written samples, in order, on each channel.
C8_RoundTripReturnsWritten ==
    (~rb.mixed /\ rb.reads > 0 /\ rb.asked <= WrittenBoth)
        => /\ rb.got[1] = Take(rb.written[1], rb.asked)
           /\ rb.got[2] = Take(rb.written[2], rb.asked)

\* C8 amended: on a buffer constructed with the 500-sample preload, after writes
\* of total length N, reads whose sizes sum to at most 500 + N return exactly
\* the first samples of (500 zeros, then the written samples), in order, on
\* each channel.
C8_RoundTripBehindPreload ==
    (~rb.mixed /\ rb.reads > 0 /\ rb.asked <= PreloadLength + WrittenBoth)
        => /\ rb.got[1] = Take(Zeros(PreloadLength) \o rb.written[1], rb.asked)
           /\ rb.got[2] = Take(Zeros(PreloadLength) \o rb.written[2], rb.asked)

\* two samples per channel were written and then read back behind the preload,
\* in more than one chunk
C8_Witness ==
    /\ ~rb.mixed
    /\ rb.reads >= 2
    /\ rb.asked = PreloadLength + 2
    /\ rb.written = << <<1, 2>>, <<-1, -2>> >>
    /\ rb.got = << Zeros(PreloadLength) \o <<1, 2>>, Zeros(PreloadLength) \o <<-1, -2>> >>

\* C9: read(k) never returns a block shorter than k; on a buffer holding m < k
\* samples per channel it returns k samples per channel: k - m zeros, then the
\* m buffered samples in order.
C9_UnderrunPadsInFront ==
    rb.op = "read"
        => /\ Len(rb.out[1]) >= rb.k
           /\ Len(rb.out[2]) >= rb.k
           /\ (Len(rb.held[1]) = Len(rb.held[2]) /\ Len(rb.held[1]) < rb.k)
                => /\ rb.out[1] = Zeros(rb.k - Len(rb.held[1])) \o rb.held[1]
                   /\ rb.out[2] = Zeros(rb.k - Len(rb.held[2])) \o rb.held[2]
                   /\ Len(rb.out[1]) = rb.k
                   /\ Len(rb.out[2]) = rb.k

\* an underrun read of a buffer that held captured samples
C9_Witness ==
    /\ UnderrunRead
    /\ Len(rb.held[1]) = Len(rb.held[2])
    /\ Len(rb.held[1]) > 0
    /\ rb.held[1][Len(rb.held[1])] # 0
    /\ rb.k > Len(rb.held[1])

\* C10 as stated: after an underrun read the buffer holds the 500 silent
\* samples per channel it was constructed with.
C10_UnderrunRestoresPreload ==
    UnderrunRead
        => /\ rb.buf.left = Zeros(PreloadLength)
           /\ rb.buf.right = Zeros(PreloadLength)

\* C10 amended: after an underrun read the buffer holds no sample on either
\* channel.
C10_UnderrunEmptiesBuffer ==
    UnderrunRead => (rb.buf.left = <<>> /\ rb.buf.right = <<>>)

\* an underrun read has just consumed a buffer that held captured samples
C10_Witness ==
    /\ UnderrunRead
    /\ rb.writes > 0
    /\ Len(rb.held[1]) > 0
    /\ Len(rb.held[2]) > 0
    /\ rb.buf.set

\* C11: after every write, also of a pair whose left and right blocks differ
\* in length, and after every read, the two channels of the relay buffer have
\* the same length
C11_ChannelsSameLength == Len(buffer.left) = Len(buffer.right)

\* ------------------------------------------------------ playlist drain
MaxTones == 2      \* tones queued in one drain
MaxFills == 3      \* playback callbacks of one drain
MaxToneLen == 3    \* samples of the longest tone queued
MaxFillLen == 3    \* frames of the largest playback callback

\* the samples of the items of a playlist, in queue order, per channel
RECURSIVE PlaylistSamples(_)
PlaylistSamples(pl) ==
    IF pl = <<>>
    THEN << <<>>, <<>> >>
    ELSE LET rest == PlaylistSamples(Tail(pl))
         IN  << Head(pl).left \o rest[1], Head(pl).right \o rest[2] >>

\* the engine once the operator has chosen both devices, nothing queued yet
InitPlaylist ==
    /\ LET card == SoundCard(0, "a", 2, "ALSA")
           e == set_output_device(set_input_device(instance, card), card)
       IN  /\ state = e.state
           /\ input_device = e.input_device
           /\ output_device = e.output_device
           /\ stream_in = e.stream_in
           /\ stream_out = e.stream_out
           /\ capture = e.capture
           /\ openOut = e.openOut
           /\ buffer = e.buffer
           /\ playlist = e.playlist
           /\ last = Call("set_output_device", Stopped, card, NoDevice, FALSE)
    /\ ctl = Idle
    /\ rb = RbIdle
    /\ AsideIdle

\* play_tone of sample_count samples
QueueTone(sample_count) ==
    /\ pb.tones < MaxTones
    /\ Install(play_tone(Engine, sample_count))
    /\ last' = Call("play_tone", state, NoDevice, NoDevice, FALSE)
    /\ LET tone == ToneSampleBuffer_init(sample_count)
       IN  pb' = [pb EXCEPT
                    !.queued = << @[1] \o tone.left, @[2] \o tone.right >>,
                    !.tones = @ + 1,
                    !.op = "queue",
                    !.n = sample_count,
                    !.held = playlist,
                    !.out = << <<>>, <<>> >>,
                    !.mixed = @ \/ pb.fills > 0]
    /\ UNCHANGED << ctl, rb, obs, probes, controller >>

\* one playback callback of frame_count frames
Fill(frame_count) ==
    /\ pb.fills < MaxFills
    /\ openOut > 0
    /\ LET r == play_callback(Engine, frame_count)
           data == bytes_to_deinterleaved(r.out, STEREO)
       IN  /\ Install(r.e)
           /\ pb' = [pb EXCEPT
                        !.got = << @[1] \o data[1], @[2] \o data[2] >>,
                        !.fills = @ + 1,
                        !.asked = @ + frame_count,
                        !.op = "fill",
                        !.n = frame_count,
                        !.held = playlist,
                        !.out = data]
    /\ last' = Call("play_callback", state, NoDevice, NoDevice, FALSE)
    /\ obs' = publish_levels(obs, FALSE)
    /\ UNCHANGED << ctl, rb, probes, controller >>

NextPlaylist ==
    \/ \E sample_count \in 1..MaxToneLen : QueueTone(sample_count)
    \/ \E frame_count \in 1..MaxFillLen : Fill(frame_count)

SpecPlaylist == InitPlaylist /\ [][NextPlaylist]_vars

\* C12: one tone of L samples queued, then fills of any sizes that sum to at
\* most L: the fills, concatenated, are the first samples of the tone in
\* order, and all L of them once the sizes sum to L; nothing is inserted
C12_SingleToneDrainsInOrder ==
    (pb.tones = 1 /\ ~pb.mixed /\ pb.asked <= Len(pb.queued[1])) =>
        pb.got = << Take(pb.queued[1], pb.asked), Take(pb.queued[2], pb.asked) >>

\* a tone of three samples drained by two or more fills that sum to three
C12_Witness ==
    /\ pb.tones = 1
    /\ ~pb.mixed
    /\ pb.fills >= 2
    /\ Len(pb.queued[1]) = 3
    /\ pb.asked = 3
    /\ pb.got = pb.queued

\* C13: every fill of n frames returns n samples per channel: the samples the
\* playlist held, in queue order, then zeros once it is exhausted; what it
\* keeps is what it held less the samples returned. With all tones queued
\* first, the fills, concatenated, are the queued samples and then zeros.
C13_FillsDrainQueueThenZeros ==
    /\ pb.op = "fill" =>
        LET held == PlaylistSamples(pb.held)
            kept == PlaylistSamples(playlist)
        IN  \A c \in 1..STEREO :
                /\ Len(pb.out[c]) = pb.n
                /\ pb.out[c] = Take(held[c], pb.n)
                                   \o Zeros(Max(0, pb.n - Len(held[c])))
                /\ kept[c] = Drop(held[c], pb.n)
    /\ ~pb.mixed =>
        \A c \in 1..STEREO :
            pb.got[c] = Take(pb.queued[c], pb.asked)
                            \o Zeros(Max(0, pb.asked - Len(pb.queued[c])))

\* two tones queued and partly drained, then a fill that takes the rest of the
\* first, goes on into the second and ends beyond the end of the playlist
C13_Witness ==
    /\ pb.op = "fill"
    /\ ~pb.mixed
    /\ pb.tones = 2
    /\ pb.fills >= 2
    /\ Len(pb.held) = 2
    /\ Len(pb.held[1].left) > 0
    /\ Len(pb.held[1].left) < pb.n
    /\ pb.asked > Len(pb.queued[1])

\* ------------------------------------------------------- dateutil.rrule
\* rrule(WEEKLY, dtstart, byweekday, byhour, byminute, bysecond): the instants
\* from dtstart on that fall on that weekday at that time of day
rrule(dtstart, byweekday, bytime) ==
    [dtstart |-> dtstart, byweekday |-> byweekday, bytime |-> bytime]

\* the first instant of the rule
rrule_first(r) ==
    LET slot == (r.byweekday * Day) + r.bytime
    IN  r.dtstart + ((slot + Week - (r.dtstart % Week)) % Week)

\* rrule.before(dt, inc): the last instant of the rule before dt, or at dt
\* when inc; None when the rule has none
rrule_before(r, dt, inc) ==
    LET first == rrule_first(r)
        limit == IF inc THEN dt ELSE dt - 1
    IN  IF first > limit
        THEN None
        ELSE first + (((limit - first) \div Week) * Week)

\* rrule.after(dt, inc): the first instant of the rule after dt, or at dt
\* when inc
rrule_after(r, dt, inc) ==
    LET first == rrule_first(r)
        limit == IF inc THEN dt ELSE dt + 1
    IN  IF first >= limit
        THEN first
        ELSE first + ((((limit - first) + (Week - 1)) \div Week) * Week)

\* ------------------------------------------------------------- schedule
\* a job of the schedule package. gen: the count of clear() calls before it
\* was registered; func: the method it calls; unit, day, at: every().<day>.at()
\* or every().minute.at(); next_run; cancel_after: the until() deadline
Job(gen, func, unit, day, at, next_run, cancel_after) ==
    [gen |-> gen, func |-> func, unit |-> unit, day |-> day, at |-> at,
     next_run |-> next_run, cancel_after |-> cancel_after]

\* Job._schedule_next_run of every().<day>.at(time): that weekday at that time,
\* today when the time is still to come
WeeklyNextRun(now, day, at) == rrule_after(rrule(now, day, at), now, TRUE)

\* Job._schedule_next_run of every().minute.at(":SS"): second SS of this minute
\* when it is still to come, of the next minute otherwise
MinuteNextRun(now, at) ==
    IF at > now % Minute
    THEN (now - (now % Minute)) + at
    ELSE (now - (now % Minute)) + Minute + at

JobNextRun(job, now) ==
    IF job.unit = "weeks"
    THEN WeeklyNextRun(now, job.day, job.at)
    ELSE MinuteNextRun(now, job.at)

\* Job.should_run
should_run(job, now) == now >= job.next_run

\* Job._is_overdue
is_overdue(job, when) == job.cancel_after # None /\ when > job.cancel_after

\* sorted(): by next_run, jobs of equal next_run in list order
RECURSIVE sorted(_)
sorted(js) ==
    IF js = <<>>
    THEN <<>>
    ELSE LET m == CHOOSE i \in 1..Len(js) :
                    /\ \A k \in 1..Len(js) : js[i].next_run <= js[k].next_run
                    /\ \A k \in 1..(i - 1) : js[k].next_run > js[i].next_run
         IN  <<js[m]>> \o sorted(SubSeq(js, 1, m - 1) \o SubSeq(js, m + 1, Len(js)))

\* the jobs Scheduler.run_pending sets out to run
runnable_jobs(js, now) == sorted(SelectSeq(js, LAMBDA job : should_run(job, now)))

\* the same job object: a job is registered once, after one clear()
SameJob(a, b) == a.gen = b.gen /\ a.func = b.func /\ a.day = b.day /\ a.at = b.at

\* Scheduler.cancel_job: nothing happens when the job is not in the list
cancel_job(js, job) == SelectSeq(js, LAMBDA j : ~SameJob(j, job))

\* ------------------------------------------------------ ScheduleService
\* timedelta(seconds=-10): how long before the next start the chimes end
ChimeLead == 10
\* the second of the minute of each chime job: the long one, then the short
ChimeOffsets == <<0, 10, 20, 30, 40, 50>>
\* int(sample_rate * beep_long) and int(sample_rate * beep_short), at two
\* samples a second
BeepLong == 2
BeepShort == 1

\* the services as a method of the controller sees them
World == [e |-> Engine, s |-> sched, jobs |-> jobs, gen |-> slast.gen]

\* a clear() that leaves the jobs in the list
ClearKeepsJobs(w) == [w EXCEPT !.gen = @ + 1]

\* schedule.clear()
schedule_clear(w) == [w EXCEPT !.jobs = <<>>, !.gen = @ + 1]

\* schedule.every().<day>.at(str(time)).do(func)
every_day_at_do(w, now, day, at, func) ==
    [w EXCEPT !.jobs = Append(@, Job(w.gen, func, "weeks", day, at,
                                     WeeklyNextRun(now, day, at), None))]

\* Job.until(until_time) raises when the deadline has passed
until_raises(until_time, now) == until_time < now

\* schedule.every().minute.at(":SS").until(until_time).do(func)
every_minute_at_until_do(w, now, at, until_time, func) ==
    [w EXCEPT !.jobs = Append(@, Job(w.gen, func, "minutes", None, at,
                                     MinuteNextRun(now, at), until_time))]

\* what a handler hands back: the services afterwards, whether it raised, and
\* what end_show worked out
Outcome(w, raised, ns, be) ==
    [w |-> w, raised |-> raised, next_start |-> ns, beeps_end |-> be]

\* a start_show that registers the end of the window and leaves the engine alone
StartShowStaysSilent(w, st, now) ==
    Outcome(every_day_at_do(schedule_clear(w), now, st.day_end, st.time_end, "end_show"),
            FALSE, None, None)

start_show(w, st, now) ==
    LET w1 == [w EXCEPT !.e = fade_in(@)]
        w2 == schedule_clear(w1)
    IN  Outcome(every_day_at_do(w2, now, st.day_end, st.time_end, "end_show"),
                FALSE, None, None)

\* the start that an early search would find: a start at this very instant is
\* passed over
NextStartAfterNow(st, now) ==
    rrule_after(rrule(now, st.day_start, st.time_start), now, FALSE)

next_start(st, now) ==
    rrule_after(rrule(now, st.day_start, st.time_start), now, TRUE)

beeps_end(ns) == ns - ChimeLead

RECURSIVE arm_chimes(_, _, _, _)
arm_chimes(w, now, until_time, i) ==
    IF i > Len(ChimeOffsets)
    THEN w
    ELSE arm_chimes(every_minute_at_until_do(w, now, ChimeOffsets[i], until_time,
                        IF i = 1 THEN "beep_long" ELSE "beep_short"),
                    now, until_time, i + 1)

end_show(w, st, now) ==
    LET w1 == [w EXCEPT !.e = fade_out(@)]
        w2 == schedule_clear(w1)
        w3 == every_day_at_do(w2, now, st.day_start, st.time_start, "start_show")
        ns == next_start(st, now)
        be == beeps_end(ns)
    IN  IF until_raises(be, now)
        THEN Outcome(w3, TRUE, ns, be)
        ELSE Outcome(arm_chimes(w3, now, be, 1), FALSE, ns, be)

beep_long(w) == Outcome([w EXCEPT !.e = play_tone(@, BeepLong)], FALSE, None, None)
beep_short(w) == Outcome([w EXCEPT !.e = play_tone(@, BeepShort)], FALSE, None, None)

\* a search for the last start that begins at this instant, not a week back
LastStartFromNow(st, now) ==
    rrule_before(rrule(now, st.day_start, st.time_start), now, TRUE)

last_start(st, now) ==
    rrule_before(rrule(now - Week, st.day_start, st.time_start), now, TRUE)

following_finish(st, now, ls) ==
    rrule_after(rrule(now - Week, st.day_end, st.time_end), ls, TRUE)

\* ScheduleService.start(), the thread it spawns apart
schedule_start(w, st, now) ==
    LET w1 == [w EXCEPT !.s = [status |-> Started, run_schedule |-> TRUE]]
        ls == last_start(st, now)
        ff == following_finish(st, now, ls)
        open == now < ff
        r == IF open THEN start_show(w1, st, now) ELSE end_show(w1, st, now)
    IN  [w |-> r.w, raised |-> r.raised, next_start |-> r.next_start,
         beeps_end |-> r.beeps_end, open |-> open, last_start |-> ls,
         following_finish |-> ff]

schedule_stop(w) ==
    LET w1 == [w EXCEPT !.s = [status |-> Stopped, run_schedule |-> FALSE]]
        w2 == schedule_clear(w1)
    IN  [w2 EXCEPT !.e = fade_out(@)]

\* job.job_func()
job_func(job, w, st, now) ==
    CASE job.func = "start_show" -> start_show(w, st, now)
      [] job.func = "end_show" -> end_show(w, st, now)
      [] job.func = "beep_long" -> beep_long(w)
      [] OTHER -> beep_short(w)

\* Job.run() and what Scheduler._run_job does with its result. The result is
\* the outcome of the job's method with the job list as run() leaves it, and
\* acted: whether the method was called
run_job(job, w, st, now) ==
    IF is_overdue(job, now)
    THEN [out |-> Outcome([w EXCEPT !.jobs = cancel_job(@, job)], FALSE, None, None),
          acted |-> FALSE]
    ELSE LET r == job_func(job, w, st, now)
             nxt == JobNextRun(job, now)
             moved == [k \in 1..Len(r.w.jobs) |->
                          IF SameJob(r.w.jobs[k], job)
                          THEN [r.w.jobs[k] EXCEPT !.next_run = nxt]
                          ELSE r.w.jobs[k]]
             js == IF r.raised
                   THEN r.w.jobs
                   ELSE IF is_overdue(job, nxt)
                   THEN cancel_job(moved, job)
                   ELSE moved
         IN  [out |-> [r EXCEPT !.w.jobs = js], acted |-> TRUE]

\* the window across midnight of Sunday
NightWindow ==
    [day_start |-> Sunday, time_start |-> HMS(23, 0, 0),
     day_end |-> Monday, time_end |-> HMS(1, 0, 0)]

\* the window and the instant the clock shows first: inside the window, and
\* at three instants shortly before its start
Scenarios ==
    { << DefaultSettings, At(1, Sunday, HMS(19, 30, 0)) >>,
      << DefaultSettings, At(1, Sunday, HMS(19, 1, 35)) >>,
      << DefaultSettings, At(1, Sunday, HMS(19, 1, 58)) >>,
      << NightWindow, At(1, Sunday, HMS(22, 59, 45)) >> }

\* the engine once the operator has chosen both devices
EngineSelected ==
    /\ LET card == SoundCard(0, "a", 2, "ALSA")
           e == set_output_device(set_input_device(instance, card), card)
       IN  /\ state = e.state
           /\ input_device = e.input_device
           /\ output_device = e.output_device
           /\ stream_in = e.stream_in
           /\ stream_out = e.stream_out
           /\ capture = e.capture
           /\ openOut = e.openOut
           /\ buffer = e.buffer
           /\ playlist = e.playlist
           /\ last = Call("set_output_device", Stopped, card, NoDevice, FALSE)
    /\ ctl = Idle

InitSchedule ==
    /\ EngineSelected
    /\ rb = RbIdle
    /\ pb = PbIdle
    /\ obs = ObsIdle
    /\ cb = CbIdle
    /\ hand = HandIdle
    /\ drain = DrainIdle
    /\ sched = ScheduleInstance
    /\ jobs = <<>>
    /\ \E scenario \in Scenarios :
        /\ settings = scenario[1]
        /\ clock = scenario[2]
    /\ poll = PollNone
    /\ slast = NoScheduleCall

\* the engine method a controller method ends up in
EngineCall(handler) ==
    Call(CASE handler = "start_show" -> "fade_in"
           [] handler \in {"beep_long", "beep_short"} -> "play_tone"
           [] OTHER -> "fade_out",
         state, NoDevice, NoDevice, FALSE)

InstallWorld(w) ==
    /\ Install(w.e)
    /\ sched' = w.s
    /\ jobs' = w.jobs

\* ScheduleService.start() on the caller's thread: the operator's switch
\* calls it when the status is Stopped
ScheduleStart ==
    /\ slast.starts < MaxStarts
    /\ sched.status = Stopped
    /\ poll' = [poll EXCEPT ![slast.starts + 1] = [pc |-> "loop", todo |-> <<>>]]
    /\ LET r == schedule_start(World, settings, clock)
           handler == IF r.open THEN "start_show" ELSE "end_show"
       IN  /\ InstallWorld(r.w)
           /\ last' = EngineCall(handler)
           /\ slast' = [slast EXCEPT
                          !.op = "start", !.handler = handler, !.now = clock,
                          !.open = r.open, !.last_start = r.last_start,
                          !.following_finish = r.following_finish,
                          !.next_start = r.next_start, !.beeps_end = r.beeps_end,
                          !.raised = r.raised, !.job = NoJob, !.pending = FALSE,
                          !.acted = FALSE, !.was = state, !.starts = @ + 1,
                          !.gen = r.w.gen]
    /\ obs' = set_status(obs, Started)
    /\ UNCHANGED << ctl, rb, pb, probes, settings, clock >>

\* ScheduleService.stop() on the caller's thread: the operator's switch calls
\* it when the status is not Stopped
ScheduleStop ==
    /\ slast.stops < MaxStops
    /\ sched.status # Stopped
    /\ LET w == schedule_stop(World)
       IN  /\ InstallWorld(w)
           /\ last' = EngineCall("stop")
           /\ slast' = [NoScheduleCall EXCEPT
                          !.op = "stop", !.now = clock, !.was = state,
                          !.starts = slast.starts, !.stops = slast.stops + 1,
                          !.ticks = slast.ticks, !.gen = w.gen]
    /\ obs' = set_status(obs, Stopped)
    /\ UNCHANGED << ctl, rb, pb, probes, settings, clock, poll >>

\* thread i at the top of __run: it ends when __run_schedule is off, else it
\* enters run_pending and picks the runnable jobs
PollLoop(i) ==
    /\ poll[i].pc = "loop"
    /\ poll' = [poll EXCEPT ![i] =
                    IF ~sched.run_schedule
                    THEN NoThread
                    ELSE LET todo == runnable_jobs(jobs, clock)
                         IN  [pc |-> IF todo = <<>> THEN "loop" ELSE "run",
                              todo |-> todo]]
    /\ UNCHANGED << state, input_device, output_device, stream_in, stream_out,
                    capture, openOut, buffer, playlist, ctl, last, rb, pb, obs, probes, sched,
                    jobs, settings, clock, slast >>

\* thread i inside run_pending runs the next of the jobs it picked; an
\* exception of the job ends the thread
PollRun(i) ==
    /\ poll[i].pc = "run"
    /\ LET job == Head(poll[i].todo)
           rest == Tail(poll[i].todo)
           r == run_job(job, World, settings, clock)
       IN  /\ InstallWorld(r.out.w)
           /\ last' = IF r.acted THEN EngineCall(job.func) ELSE last
           /\ poll' = [poll EXCEPT ![i] =
                          IF r.out.raised \/ rest = <<>>
                          THEN [pc |-> IF r.out.raised THEN "none" ELSE "loop",
                                todo |-> <<>>]
                          ELSE [pc |-> "run", todo |-> rest]]
           /\ slast' = [NoScheduleCall EXCEPT
                          !.op = "run_job",
                          !.handler = IF r.acted THEN job.func ELSE "none",
                          !.now = clock, !.next_start = r.out.next_start,
                          !.beeps_end = r.out.beeps_end, !.raised = r.out.raised,
                          !.job = job,
                          !.pending = \E k \in 1..Len(jobs) : SameJob(jobs[k], job),
                          !.acted = r.acted, !.was = state,
                          !.starts = slast.starts, !.stops = slast.stops,
                          !.ticks = slast.ticks, !.gen = r.out.w.gen]
    /\ UNCHANGED << ctl, rb, pb, obs, probes, settings, clock >>

\* the instants the clock shows next: the next instant a job is due, or the
\* next second while a job is due and no thread has run it yet
NextInstants ==
    { clock + 1 : k \in { k \in 1..Len(jobs) : should_run(jobs[k], clock) } } \cup
    { t \in { jobs[k].next_run : k \in 1..Len(jobs) } :
        /\ t > clock
        /\ \A k \in 1..Len(jobs) : jobs[k].next_run > clock => jobs[k].next_run >= t }

Tick(t) ==
    /\ slast.ticks < MaxTicks
    /\ clock' = t
    /\ slast' = [slast EXCEPT !.ticks = @ + 1]
    /\ UNCHANGED << state, input_device, output_device, stream_in, stream_out,
                    capture, openOut, buffer, playlist, ctl, last, rb, pb, obs, probes, sched,
                    jobs, settings, poll >>

NextSchedule ==
    \/ PlayCallback(PreloadLength + 1)
    \/ ScheduleStart
    \/ ScheduleStop
    \/ \E i \in 1..MaxStarts : PollLoop(i)
    \/ \E i \in 1..MaxStarts : PollRun(i)
    \/ \E t \in NextInstants : Tick(t)

SpecSchedule == InitSchedule /\ [][NextSchedule]_vars

\* ----------------------------------------------------- window evaluation
\* every window of these days and times, and every instant of these days and
\* times of the clock, for one call of start()
DaysOfWeek == Monday..Sunday
StartTimes == { HMS(19, 2, 1), HMS(23, 0, 0) }
EndTimes == { HMS(20, 59, 53), HMS(1, 0, 0), HMS(23, 0, 0) }
ClockTimes ==
    { HMS(0, 30, 0), HMS(2, 0, 0), HMS(19, 2, 1), HMS(19, 30, 0), HMS(20, 59, 53),
      HMS(22, 59, 55), HMS(23, 0, 0) }

InitWindow ==
    /\ EngineSelected
    /\ rb = RbIdle
    /\ pb = PbIdle
    /\ obs = ObsIdle
    /\ cb = CbIdle
    /\ hand = HandIdle
    /\ drain = DrainIdle
    /\ sched = ScheduleInstance
    /\ jobs = <<>>
    /\ \E ds \in DaysOfWeek, ts \in StartTimes, de \in DaysOfWeek, te \in EndTimes :
        settings = [day_start |-> ds, time_start |-> ts, day_end |-> de, time_end |-> te]
    /\ \E d \in DaysOfWeek, t \in ClockTimes : clock = At(1, d, t)
    /\ poll = PollNone
    /\ slast = NoScheduleCall

NextWindow == ScheduleStart

SpecWindow == InitWindow /\ [][NextWindow]_vars

\* t is an occurrence of (day, time)
IsOccurrence(t, day, time) == Weekday(t) = day /\ TimeOfDay(t) = time

\* C14: start() at the instant now enters on-air (start_show) iff
\* now < following_finish, and off-air (end_show) otherwise, where last_start
\* is the most recent occurrence of (day_start, time_start) at or before now
\* and following_finish the first occurrence of (day_end, time_end) at or
\* after last_start; Sunday 23:00 -> Monday 01:00 is open at Monday 00:30 and
\* closed at Monday 02:00
C14_WindowEvaluation ==
    slast.op = "start" =>
        LET now == slast.now
            ls == slast.last_start
            ff == slast.following_finish
        IN  /\ IsOccurrence(ls, settings.day_start, settings.time_start)
            /\ ls <= now
            /\ now - ls < Week
            /\ IsOccurrence(ff, settings.day_end, settings.time_end)
            /\ ff >= ls
            /\ ff - ls < Week
            /\ slast.open <=> now < ff
            /\ slast.handler = (IF now < ff THEN "start_show" ELSE "end_show")
            /\ slast.handler = "start_show" /\ slast.was = Started => state = FadeIn
            /\ slast.handler = "end_show" => state = slast.was
            /\ settings = NightWindow /\ now = At(1, Monday, HMS(0, 30, 0))
                => slast.handler = "start_show"
            /\ settings = NightWindow /\ now = At(1, Monday, HMS(2, 0, 0))
                => slast.handler = "end_show"

\* the window across midnight of Sunday, found open at Monday 00:30
C14_Witness ==
    /\ slast.op = "start"
    /\ settings = NightWindow
    /\ slast.now = At(1, Monday, HMS(0, 30, 0))
    /\ slast.last_start = At(0, Sunday, HMS(23, 0, 0))
    /\ slast.following_finish = At(1, Monday, HMS(1, 0, 0))
    /\ slast.handler = "start_show"
    /\ state = FadeIn

\* C15: next_start of end_show is the first occurrence of (day_start,
\* time_start) at or after now: never before now, less than a week after now,
\* and next week's occurrence when this week's has passed; after Monday 02:00
\* with a start of Sunday 23:00 it is the Sunday 23:00 that follows
C15_NextStart ==
    slast.handler = "end_show" =>
        LET now == slast.now
            ns == slast.next_start
            slot == (settings.day_start * Day) + settings.time_start
        IN  /\ IsOccurrence(ns, settings.day_start, settings.time_start)
            /\ ns >= now
            /\ ns - now < Week
            /\ slot < now % Week => ns \div Week = (now \div Week) + 1
            /\ settings = NightWindow /\ now = At(1, Monday, HMS(2, 0, 0))
                => ns = At(1, Sunday, HMS(23, 0, 0))

\* the default window found closed at its end: this week's start has passed
C15_Witness ==
    /\ slast.op = "start"
    /\ slast.handler = "end_show"
    /\ settings = DefaultSettings
    /\ slast.now = At(1, Sunday, HMS(20, 59, 53))
    /\ slast.next_start = At(2, Sunday, HMS(19, 2, 1))

\* a chime job
IsChime(job) == job.func \in {"beep_long", "beep_short"}

\* C16: the chime cutoff is next_start - 10 seconds; chimes are armed at the
\* seconds 0, 10, 20, 30, 40 and 50 of the minute, the long one at 0; and no
\* chime calls play_tone at an instant at or after the cutoff
C16_NoChimeAtOrAfterCutoff ==
    /\ slast.handler = "end_show" => slast.beeps_end = slast.next_start - 10
    /\ \A k \in 1..Len(jobs) :
        IsChime(jobs[k]) =>
            /\ jobs[k].at \in {0, 10, 20, 30, 40, 50}
            /\ jobs[k].func = "beep_long" <=> jobs[k].at = 0
            /\ jobs[k].next_run % Minute = jobs[k].at
    /\ slast.op = "run_job" /\ slast.acted /\ IsChime(slast.job)
        => slast.now < slast.job.cancel_after

\* C17: with both devices selected and the schedule started inside the
\* window, the engine goes from Started to FadeIn; the next playback callback
\* takes it to Relaying; and it leaves the relay states only in a step of
\* end_show or of stop
C17_OnAirEntry ==
    [][/\ (slast'.starts = slast.starts + 1 /\ slast'.open /\ state = Started)
            => (state' = FadeIn /\ slast'.handler = "start_show")
       /\ (state = FadeIn /\ last'.op = "play_callback" /\ UNCHANGED controller)
            => state' = Relaying
       /\ (state \in {FadeIn, Relaying} /\ state' \notin {FadeIn, Relaying})
            => (slast' # slast /\ (slast'.op = "stop" \/ slast'.handler = "end_show"))
      ]_vars

\* the default window entered at Sunday 19:30:00 and one playback callback
C17_Witness ==
    /\ settings = DefaultSettings
    /\ slast.op = "start"
    /\ slast.now = At(1, Sunday, HMS(19, 30, 0))
    /\ slast.open
    /\ slast.was = Started
    /\ last.op = "play_callback"
    /\ last.from = FadeIn
    /\ state = Relaying

\* C18: once stop() has returned the job list is empty, the status is
\* Stopped, and the engine, whatever relay state it was in, is not relaying
\* and does not come to relay again while the controller stays stopped
C18_StopEndsRelay ==
    slast.op = "stop" =>
        /\ jobs = <<>>
        /\ sched.status = Stopped
        /\ state # Relaying

\* C19: a job that a cancellation has removed from the job list does not
\* call its method afterwards, whatever thread runs it
C19_NoCancelledJobRuns ==
    (slast.op = "run_job" /\ slast.acted) => slast.pending

\* C20: after start_show the job list is one end_show job at (day_end,
\* time_end); after end_show has returned it is one start_show job at
\* (day_start, time_start) and the six chime jobs; no job registered before
\* the handler's clear() is left
C20_HandlersLeaveFixedJobSet ==
    /\ slast.handler = "start_show" =>
        /\ Len(jobs) = 1
        /\ jobs[1].func = "end_show"
        /\ jobs[1].gen = slast.gen
        /\ jobs[1].next_run >= slast.now
        /\ IsOccurrence(jobs[1].next_run, settings.day_end, settings.time_end)
    /\ (slast.handler = "end_show" /\ ~slast.raised) =>
        /\ Len(jobs) = 1 + Len(ChimeOffsets)
        /\ jobs[1].func = "start_show"
        /\ jobs[1].next_run >= slast.now
        /\ IsOccurrence(jobs[1].next_run, settings.day_start, settings.time_start)
        /\ \A k \in 1..Len(jobs) : jobs[k].gen = slast.gen
        /\ \A i \in 1..Len(ChimeOffsets) :
            /\ jobs[i + 1].func = (IF i = 1 THEN "beep_long" ELSE "beep_short")
            /\ jobs[i + 1].at = ChimeOffsets[i]
            /\ jobs[i + 1].cancel_after = slast.beeps_end

\* end_show run by the end-of-window job that start_show had registered
C20_Witness ==
    /\ slast.op = "run_job"
    /\ slast.handler = "end_show"
    /\ slast.job.func = "end_show"
    /\ slast.pending
    /\ ~slast.raised
    /\ Len(jobs) = 7

\* ------------------------------------------------- observer registration
MaxObservers == 2  \* registrations of observers, over the three lists

RegisterCallback(callback) ==
    /\ obs.regs < MaxObservers
    /\ obs' = [register_callback(obs, callback, sched.status) EXCEPT !.regs = @ + 1]
    /\ UNCHANGED << state, input_device, output_device, stream_in, stream_out,
                    capture, openOut, buffer, playlist, ctl, last, rb, pb, probes,
                    controller >>

DeregisterCallback(callback) ==
    /\ obs' = deregister_callback(obs, callback)
    /\ UNCHANGED << state, input_device, output_device, stream_in, stream_out,
                    capture, openOut, buffer, playlist, ctl, last, rb, pb, probes,
                    controller >>

RegisterLevelsCallback(input, callback) ==
    /\ obs.regs < MaxObservers
    /\ obs' = [register_levels_callback(obs, input, callback) EXCEPT !.regs = @ + 1]
    /\ UNCHANGED << state, input_device, output_device, stream_in, stream_out,
                    capture, openOut, buffer, playlist, ctl, last, rb, pb, probes,
                    controller >>

DeregisterLevelsCallback(input, callback) ==
    /\ obs' = deregister_levels_callback(obs, input, callback)
    /\ UNCHANGED << state, input_device, output_device, stream_in, stream_out,
                    capture, openOut, buffer, playlist, ctl, last, rb, pb, probes,
                    controller >>

\* the operator's switch, the observers coming and going, and the two stream
\* callbacks of the selected cards
NextObservers ==
    \/ \E callback \in Observers : RegisterCallback(callback)
    \/ \E callback \in Observers : DeregisterCallback(callback)
    \/ \E input \in BOOLEAN, callback \in Observers :
            RegisterLevelsCallback(input, callback)
    \/ \E input \in BOOLEAN, callback \in Observers :
            DeregisterLevelsCallback(input, callback)
    \/ ScheduleStart
    \/ ScheduleStop
    \/ RecordCallback(STEREO, 1)
    \/ PlayCallback(PreloadLength + 1)

\* the controller just constructed, short of the default window
InitObservers ==
    /\ EngineSelected
    /\ rb = RbIdle
    /\ pb = PbIdle
    /\ obs = ObsIdle
    /\ cb = CbIdle
    /\ hand = HandIdle
    /\ drain = DrainIdle
    /\ sched = ScheduleInstance
    /\ jobs = <<>>
    /\ settings = DefaultSettings
    /\ clock = At(1, Sunday, HMS(19, 1, 35))
    /\ poll = PollNone
    /\ slast = NoScheduleCall

SpecObservers == InitObservers /\ [][NextObservers]_vars

\* C21: every observer in the status list has received, as its last value,
\* the controller's current status
C21_ObserversHoldCurrentStatus ==
    \A i \in 1..Len(obs.callbacks) : obs.got[obs.callbacks[i]] = sched.status

\* C22: a notifying loop calls every observer that was registered when it
\* began, once each, in registration order, whether or not an observer
\* deregisters itself inside its notification
C22_LoopCallsEveryObserver ==
    obs.event.kind # "none" => obs.event.delivered = obs.event.registered

\* ----------------------------------------------------------- relay path
\* fade_in() in the two assignments it makes, the stream callbacks between
\* them: the capture and the playback thread of the open stream pair
RelayStates == {FadeIn, Relaying, FadeOut}

\* a fade_in that goes on with the buffer of the session before
FadeInKeepsBuffer(e) ==
    IF e.buffer.set THEN e ELSE [e EXCEPT !.buffer = PlayThroughSampleBuffer_init(PreloadLength)]

\* self.__buffer = PlayThroughSampleBuffer(...)
fade_in_buffer(e) == [e EXCEPT !.buffer = PlayThroughSampleBuffer_init(PreloadLength)]

\* self.__state = AudioEngineState.FadeIn
fade_in_state(e) == [e EXCEPT !.state = FadeIn]

\* both cards chosen, the input card mono or stereo
InitRelay ==
    /\ \E card \in InputCards :
        LET e == set_output_device(set_input_device(instance, card),
                                   SoundCard(0, "a", 2, "ALSA"))
        IN  /\ state = e.state
            /\ input_device = e.input_device
            /\ output_device = e.output_device
            /\ stream_in = e.stream_in
            /\ stream_out = e.stream_out
            /\ capture = e.capture
            /\ openOut = e.openOut
            /\ buffer = e.buffer
            /\ playlist = e.playlist
            /\ last = Call("set_output_device", Stopped, SoundCard(0, "a", 2, "ALSA"),
                           NoDevice, FALSE)
    /\ ctl = Idle
    /\ rb = RbIdle
    /\ AsideIdle

\* fade_in() up to the new buffer, or all of it when it is refused
FadeInBuffer ==
    /\ ctl.pc = "idle"
    /\ Install(IF state = Started THEN fade_in_buffer(Engine) ELSE Engine)
    /\ ctl' = IF state = Started THEN [ctl EXCEPT !.pc = "fade_in", !.writes = 0] ELSE ctl
    /\ last' = Call("fade_in", state, NoDevice, NoDevice, FALSE)
    /\ cb' = [CbIdle EXCEPT !.op = "fade_in", !.from = state, !.buffer = buffer,
                            !.playlist = playlist]
    /\ UNCHANGED << rb, pb, obs, hand, drain, controller >>

\* fade_in() from the state assignment to its return
FadeInState ==
    /\ ctl.pc = "fade_in"
    /\ Install(fade_in_state(Engine))
    /\ ctl' = [ctl EXCEPT !.pc = "idle"]
    /\ last' = Call("fade_in", Started, NoDevice, NoDevice, FALSE)
    /\ UNCHANGED << rb, pb, obs, probes, controller >>

\* a capture callback of frame_count frames
Capture(frame_count) ==
    /\ LET in_data == Ramp(frame_count * calculate_channel_count(Engine, TRUE))
           r == record_callback(Engine, in_data)
       IN  /\ r.e.buffer # buffer => ctl.writes < MaxWrites
           /\ Install(r.e)
           /\ ctl' = [ctl EXCEPT !.writes = IF r.e.buffer # buffer THEN @ + 1 ELSE @]
           /\ cb' = [CbIdle EXCEPT !.op = "record_callback", !.from = state,
                                   !.n = frame_count, !.in_data = in_data,
                                   !.ret = r.out, !.buffer = buffer,
                                   !.playlist = playlist]
    /\ last' = Call("record_callback", state, NoDevice, NoDevice, FALSE)
    /\ obs' = publish_levels(obs, TRUE)
    /\ UNCHANGED << rb, pb, hand, drain, controller >>

\* a playback callback of frame_count frames
Playback(frame_count) ==
    /\ openOut > 0
    /\ LET r == play_callback(Engine, frame_count)
           read == PlayThroughSampleBuffer_read(buffer, frame_count).out
       IN  /\ Install(r.e)
           /\ cb' = [CbIdle EXCEPT !.op = "play_callback", !.from = state,
                                   !.n = frame_count, !.ret = r.out,
                                   !.buffer = buffer, !.playlist = playlist,
                                   !.relay = IF state \in RelayStates
                                             THEN << Take(read[1], frame_count),
                                                     Take(read[2], frame_count) >>
                                             ELSE << <<>>, <<>> >>]
    /\ last' = Call("play_callback", state, NoDevice, NoDevice, FALSE)
    /\ obs' = publish_levels(obs, FALSE)
    /\ UNCHANGED << ctl, rb, pb, hand, drain, controller >>

NextRelay ==
    \/ FadeInBuffer
    \/ FadeInState
    \/ DoFadeOut
    \/ \E sample_count \in ToneCounts : PlayTone(sample_count)
    \/ \E frame_count \in CaptureFrameCounts : Capture(frame_count)
    \/ \E frame_count \in FrameCounts : Playback(frame_count)

SpecRelay == InitRelay /\ [][NextRelay]_vars

\* a fade_in() under way returns, and an open playback stream goes on calling
\* back: weak fairness of the playback callback, which can take a step
\* whenever a playback stream is open
SpecRelayLive ==
    /\ SpecRelay
    /\ WF_vars(FadeInState)
    /\ \/ []<>(openOut = 0)
       \/ []<><<\E frame_count \in FrameCounts : Playback(frame_count)>>_vars

C24_RelayInEveryBlock ==
    (cb.op = "play_callback" /\ cb.from \in RelayStates) =>
        LET held == PlaylistSamples(cb.playlist)
            fill == [c \in 1..STEREO |->
                        Take(held[c], cb.n) \o Zeros(Max(0, cb.n - Len(held[c])))]
        IN  bytes_to_deinterleaved(cb.ret, STEREO) =
                IF cb.from = FadeOut
                THEN << NpAdd(cb.relay[1], fill[1]), NpAdd(cb.relay[2], fill[2]) >>
                ELSE cb.relay

\* C25: a capture callback appends its block, a mono block on both channels,
\* to the relay buffer when entered in FadeIn, Relaying or FadeOut and leaves
\* the buffer alone otherwise; it leaves the state and the playlist alone and
\* returns the frames it was given
C25_CaptureGating ==
    last.op = "record_callback" =>
        LET block == IF calculate_channel_count(Engine, TRUE) = 1
                     THEN << cb.in_data, cb.in_data >>
                     ELSE << Stride(cb.in_data, 0, STEREO), Stride(cb.in_data, 1, STEREO) >>
        IN  /\ cb.op = "record_callback"
            /\ buffer = IF cb.from \in RelayStates
                        THEN [cb.buffer EXCEPT !.left = @ \o block[1],
                                               !.right = @ \o block[2]]
                        ELSE cb.buffer
            /\ state = cb.from
            /\ playlist = cb.playlist
            /\ cb.ret = cb.in_data

\* a capture callback while relaying, a tone waiting in the playlist
C25_Witness ==
    /\ last.op = "record_callback"
    /\ cb.from = Relaying
    /\ Len(buffer.left) = Len(cb.buffer.left) + 1
    /\ playlist # <<>>

\* a capture callback outside a relay session
C25_WitnessDiscarded ==
    /\ last.op = "record_callback"
    /\ cb.from = Started
    /\ buffer.set
    /\ buffer = cb.buffer

\* C27: when a fade_in() entered in Started returns, the relay buffer holds the
\* preload and nothing else; and whenever the engine is in FadeIn, Relaying or
\* FadeOut there is a relay buffer
C27_FreshRelayBuffer ==
    /\ (last.op = "fade_in" /\ last.from = Started /\ ctl.pc = "idle") =>
            buffer = [set |-> TRUE, left |-> Zeros(PreloadLength),
                      right |-> Zeros(PreloadLength)]
    /\ state \in RelayStates => buffer.set

\* a second relay session begun while the buffer of the first still held a
\* captured sample
C27_Witness ==
    /\ last.op = "fade_in"
    /\ last.from = Started
    /\ ctl.pc = "idle"
    /\ state = FadeIn
    /\ cb.op = "fade_in"
    /\ cb.buffer.set
    /\ \E i \in 1..Len(cb.buffer.left) : cb.buffer.left[i] # 0

\* C26: after a fill no item of the playlist is exhausted: an item whose
\* samples the read used up is not put back
C26_NoExhaustedItemRequeued ==
    pb.op = "fill" => \A i \in 1..Len(playlist) : Len(playlist[i].left) > 0

\* ------------------------------------------------------- relay hand-off
\* write() on the capture thread and read() on the playback thread of one
\* PlayThroughSampleBuffer, a step for every read and every assignment of
\* __samples_left and __samples_right
MaxHandWrites == 1  \* calls of write() by the capture thread
MaxHandReads == 2   \* calls of read() by the playback thread

HandReadSizes == { 1, PreloadLength + 1 }

\* one step of write(samples); the result is [w |-> the thread, buf |-> the buffer]
write_step(w, buf) ==
    CASE w.pc = "append_left" ->
            [w |-> [w EXCEPT !.pc = "assign_left", !.tmp = buf.left \o w.samples[1]],
             buf |-> buf]
      [] w.pc = "assign_left" ->
            [w |-> [w EXCEPT !.pc = "append_right", !.tmp = <<>>],
             buf |-> [buf EXCEPT !.left = w.tmp]]
      [] w.pc = "append_right" ->
            [w |-> [w EXCEPT !.pc = "assign_right", !.tmp = buf.right \o w.samples[2]],
             buf |-> buf]
      [] OTHER ->
            [w |-> HandIdle.w, buf |-> [buf EXCEPT !.right = w.tmp]]

\* one step of read(sample_count); the result is [r |-> the thread, buf |-> the
\* buffer, returned |-> whether read returned [r.left, r.right]]
read_step(r, buf) ==
    CASE r.pc = "len_left" ->
            [r |-> [r EXCEPT !.pc = "len_right", !.len_left = Len(buf.left)],
             buf |-> buf, returned |-> FALSE]
      [] r.pc = "len_right" ->
            LET buffer_length == Min(r.len_left, Len(buf.right))
            IN  [r |-> [r EXCEPT !.pc = IF r.sample_count > buffer_length
                                        THEN "pad_left" ELSE "slice_left",
                                 !.buffer_length = buffer_length],
                 buf |-> buf, returned |-> FALSE]
      [] r.pc = "pad_left" ->
            [r |-> [r EXCEPT !.pc = "pad_right",
                             !.left = Zeros(r.sample_count - r.buffer_length) \o buf.left],
             buf |-> buf, returned |-> FALSE]
      [] r.pc = "pad_right" ->
            [r |-> [r EXCEPT !.pc = "clear_left",
                             !.right = Zeros(r.sample_count - r.buffer_length) \o buf.right],
             buf |-> buf, returned |-> FALSE]
      [] r.pc = "clear_left" ->
            [r |-> [r EXCEPT !.pc = "clear_right"],
             buf |-> [buf EXCEPT !.left = <<>>], returned |-> FALSE]
      [] r.pc = "clear_right" ->
            [r |-> [r EXCEPT !.pc = "idle"],
             buf |-> [buf EXCEPT !.right = <<>>], returned |-> TRUE]
      [] r.pc = "slice_left" ->
            [r |-> [r EXCEPT !.pc = "slice_right", !.left = Take(buf.left, r.sample_count)],
             buf |-> buf, returned |-> FALSE]
      [] r.pc = "slice_right" ->
            [r |-> [r EXCEPT !.pc = "rest_left", !.right = Take(buf.right, r.sample_count)],
             buf |-> buf, returned |-> FALSE]
      [] r.pc = "rest_left" ->
            [r |-> [r EXCEPT !.pc = "assign_left", !.tmp = Drop(buf.left, r.sample_count)],
             buf |-> buf, returned |-> FALSE]
      [] r.pc = "assign_left" ->
            [r |-> [r EXCEPT !.pc = "rest_right", !.tmp = <<>>],
             buf |-> [buf EXCEPT !.left = r.tmp], returned |-> FALSE]
      [] r.pc = "rest_right" ->
            [r |-> [r EXCEPT !.pc = "assign_right", !.tmp = Drop(buf.right, r.sample_count)],
             buf |-> buf, returned |-> FALSE]
      [] OTHER ->
            [r |-> [r EXCEPT !.pc = "idle", !.tmp = <<>>],
             buf |-> [buf EXCEPT !.right = r.tmp], returned |-> TRUE]

InitHand == InitBench

\* the capture callback calls write() with a block of n samples per channel
WriteCall(n) ==
    /\ hand.w.pc = "idle"
    /\ rb.writes < MaxHandWrites
    /\ LET samples == NextBlock(rb.written, << n, n >>)
       IN  /\ hand' = [hand EXCEPT !.w = [pc |-> "append_left", samples |-> samples,
                                          tmp |-> <<>>]]
           /\ rb' = [rb EXCEPT
                        !.written = << @[1] \o samples[1], @[2] \o samples[2] >>,
                        !.writes = @ + 1,
                        !.op = "write",
                        !.mixed = @ \/ rb.reads > 0]
    /\ UNCHANGED << state, input_device, output_device, stream_in, stream_out,
                    capture, openOut, buffer, playlist, ctl, last, pb, obs, cb,
                    drain, controller >>

WriteStep ==
    /\ hand.w.pc # "idle"
    /\ LET s == write_step(hand.w, rb.buf)
       IN  /\ hand' = [hand EXCEPT !.w = s.w]
           /\ rb' = [rb EXCEPT !.buf = s.buf]
    /\ UNCHANGED << state, input_device, output_device, stream_in, stream_out,
                    capture, openOut, buffer, playlist, ctl, last, pb, obs, cb,
                    drain, controller >>

\* the playback callback calls read(sample_count)
ReadCall(sample_count) ==
    /\ hand.r.pc = "idle"
    /\ rb.reads < MaxHandReads
    /\ hand' = [hand EXCEPT !.r = [HandIdle.r EXCEPT !.pc = "len_left",
                                                     !.sample_count = sample_count]]
    /\ rb' = [rb EXCEPT !.reads = @ + 1, !.asked = @ + sample_count, !.op = "read",
                        !.k = sample_count]
    /\ UNCHANGED << state, input_device, output_device, stream_in, stream_out,
                    capture, openOut, buffer, playlist, ctl, last, pb, obs, cb,
                    drain, controller >>

ReadStep ==
    /\ hand.r.pc # "idle"
    /\ LET s == read_step(hand.r, rb.buf)
       IN  /\ hand' = [hand EXCEPT !.r = s.r]
           /\ rb' = [rb EXCEPT
                        !.buf = s.buf,
                        !.got = IF s.returned
                                THEN << @[1] \o s.r.left, @[2] \o s.r.right >>
                                ELSE @,
                        !.out = IF s.returned THEN << s.r.left, s.r.right >> ELSE @]
    /\ UNCHANGED << state, input_device, output_device, stream_in, stream_out,
                    capture, openOut, buffer, playlist, ctl, last, pb, obs, cb,
                    drain, controller >>

NextHand ==
    \/ \E n \in 1..MaxBlock : WriteCall(n)
    \/ WriteStep
    \/ \E sample_count \in HandReadSizes : ReadCall(sample_count)
    \/ ReadStep

SpecHand == InitHand /\ [][NextHand]_vars

\* the samples of s that are not zero: the preload and the padding are zeros,
\* the samples written are not
NonZero(s) == SelectSeq(s, LAMBDA x : x # 0)

\* C28: once write() and read() have returned, the channels have one length,
\* and on each channel the samples the reads returned, padding and preload
\* apart, followed by the samples still buffered, are the samples written, in
\* order
C28_HandOffKeepsEverySample ==
    (hand.w.pc = "idle" /\ hand.r.pc = "idle") =>
        /\ Len(rb.buf.left) = Len(rb.buf.right)
        /\ NonZero(rb.got[1]) \o NonZero(rb.buf.left) = rb.written[1]
        /\ NonZero(rb.got[2]) \o NonZero(rb.buf.right) = rb.written[2]

\* ------------------------------------------------- playlist under play_tone
\* __play_playlist on the playback thread, a step for every operation on the
\* list, and play_tone on the control thread between them

\* a step that puts the item back behind the others
DrainRequeuesAtTail(d, pl) ==
    CASE d.pc = "pop" /\ pl = <<>> ->
            [d |-> [d EXCEPT !.pc = "idle",
                             !.left = @ \o Zeros(d.samples_remaining),
                             !.right = @ \o Zeros(d.samples_remaining)],
             playlist |-> pl, returned |-> TRUE]
      [] d.pc = "pop" /\ pl # <<>> ->
            [d |-> [d EXCEPT !.pc = "read", !.current_item = Head(pl)],
             playlist |-> Tail(pl), returned |-> FALSE]
      [] d.pc = "read" ->
            LET r == ToneSampleBuffer_read(d.current_item, d.samples_remaining)
                got == << Take(r.out[1], d.samples_remaining),
                          Take(r.out[2], d.samples_remaining) >>
                remaining == Max(0, d.frame_count - Len(d.left \o got[1]))
            IN  [d |-> [d EXCEPT !.pc = IF remaining = 0 THEN "insert" ELSE "pop",
                                 !.left = @ \o got[1],
                                 !.right = @ \o got[2],
                                 !.samples_remaining = remaining,
                                 !.current_item = IF remaining = 0 THEN r.item ELSE NoItem,
                                 !.taken = << @[1] \o got[1], @[2] \o got[2] >>],
                 playlist |-> pl, returned |-> FALSE]
      [] OTHER ->
            [d |-> [d EXCEPT !.pc = "idle", !.current_item = NoItem],
             playlist |-> pl \o << d.current_item >>, returned |-> TRUE]

\* one step of __play_playlist; the result is [d |-> the thread, playlist |->
\* the list, returned |-> whether it returned [d.left, d.right]]
drain_step(d, pl) ==
    CASE d.pc = "pop" /\ pl = <<>> ->
            [d |-> [d EXCEPT !.pc = "idle",
                             !.left = @ \o Zeros(d.samples_remaining),
                             !.right = @ \o Zeros(d.samples_remaining)],
             playlist |-> pl, returned |-> TRUE]
      [] d.pc = "pop" /\ pl # <<>> ->
            [d |-> [d EXCEPT !.pc = "read", !.current_item = Head(pl)],
             playlist |-> Tail(pl), returned |-> FALSE]
      [] d.pc = "read" ->
            LET r == ToneSampleBuffer_read(d.current_item, d.samples_remaining)
                got == << Take(r.out[1], d.samples_remaining),
                          Take(r.out[2], d.samples_remaining) >>
                remaining == Max(0, d.frame_count - Len(d.left \o got[1]))
            IN  [d |-> [d EXCEPT !.pc = IF remaining = 0 THEN "insert" ELSE "pop",
                                 !.left = @ \o got[1],
                                 !.right = @ \o got[2],
                                 !.samples_remaining = remaining,
                                 !.current_item = IF remaining = 0 THEN r.item ELSE NoItem,
                                 !.taken = << @[1] \o got[1], @[2] \o got[2] >>],
                 playlist |-> pl, returned |-> FALSE]
      [] OTHER ->
            [d |-> [d EXCEPT !.pc = "idle", !.current_item = NoItem],
             playlist |-> << d.current_item >> \o pl, returned |-> TRUE]

\* a playback callback of frame_count frames, entered in Started, reaches
\* __play_playlist
DrainCall(frame_count) ==
    /\ drain.pc = "idle"
    /\ pb.fills < MaxFills
    /\ openOut > 0
    /\ state = Started
    /\ drain' = [drain EXCEPT !.pc = "pop", !.frame_count = frame_count,
                              !.samples_remaining = frame_count,
                              !.left = <<>>, !.right = <<>>,
                              !.mark = Len(drain.taken[1])]
    /\ pb' = [pb EXCEPT !.fills = @ + 1, !.asked = @ + frame_count, !.op = "drain",
                        !.n = frame_count, !.held = playlist,
                        !.out = << <<>>, <<>> >>]
    /\ last' = Call("play_callback", state, NoDevice, NoDevice, FALSE)
    /\ UNCHANGED << state, input_device, output_device, stream_in, stream_out,
                    capture, openOut, buffer, playlist, ctl, rb, obs, cb, hand,
                    controller >>

\* the playback thread's next step; the callback ends when __play_playlist
\* returns
DrainStep ==
    /\ drain.pc # "idle"
    /\ LET s == drain_step(drain, playlist)
       IN  /\ drain' = s.d
           /\ playlist' = s.playlist
           /\ pb' = IF s.returned
                    THEN [pb EXCEPT
                            !.got = << @[1] \o s.d.left, @[2] \o s.d.right >>,
                            !.op = "fill",
                            !.out = << s.d.left, s.d.right >>]
                    ELSE pb
           /\ obs' = IF s.returned THEN publish_levels(obs, FALSE) ELSE obs
    /\ UNCHANGED << state, input_device, output_device, stream_in, stream_out,
                    capture, openOut, buffer, ctl, last, rb, cb, hand, controller >>

NextDrain ==
    \/ \E sample_count \in 1..MaxToneLen : QueueTone(sample_count)
    \/ \E frame_count \in 1..MaxFillLen : DrainCall(frame_count)
    \/ DrainStep

SpecDrain == InitPlaylist /\ [][NextDrain]_vars

\* C29: whatever play_tone does between the steps of a fill, on each channel
\* the samples read out of items so far, then the item in the playback
\* thread's hand, then the playlist, are the samples of the tones in the order
\* requested; and the block a fill returns is the samples it read out of
\* items, then zeros
C29_TonesPlayedInRequestOrder ==
    /\ \A c \in 1..STEREO :
        pb.queued[c] = drain.taken[c]
                        \o (IF c = 1 THEN drain.current_item.left
                                     ELSE drain.current_item.right)
                        \o PlaylistSamples(playlist)[c]
    /\ (pb.op = "fill" /\ drain.pc = "idle") =>
        \A c \in 1..STEREO :
            LET read == SubSeq(drain.taken[c], drain.mark + 1, Len(drain.taken[c]))
            IN  pb.out[c] = read \o Zeros(drain.frame_count - Len(read))

\* a tone was requested while the first fill held a tone out of the list; the
\* fill has put the rest of that tone back in front of the new one
C29_Witness ==
    /\ pb.op = "fill"
    /\ drain.pc = "idle"
    /\ pb.fills = 1
    /\ pb.tones = 2
    /\ pb.mixed
    /\ pb.held # <<>>
    /\ Len(playlist) = 2
    /\ Len(playlist[1].left) > 0
    /\ Len(drain.taken[1]) > 0

\* ------------------------------------------------------ single control loop

\* C30: whatever start() and stop() calls were made, at most one polling
\* thread is inside __run
C30_OnePollingThread ==
    Cardinality({ i \in DOMAIN poll : poll[i].pc # "none" }) <= 1

\* ------------------------------------------- playlist across engine states
\* tones requested in every state of the engine, the playback callback served
\* whenever a playback stream is open

\* a playback callback of frame_count frames. pb.got grows by the samples the
\* returned block carries for the samples that left the playlist; pb.fills
\* counts the callbacks entered outside Started
TonePlayback(frame_count) ==
    /\ openOut > 0
    /\ state # Started => pb.fills < MaxFills
    /\ LET r == play_callback(Engine, frame_count)
           data == bytes_to_deinterleaved(r.out, STEREO)
           k == Len(PlaylistSamples(playlist)[1]) - Len(PlaylistSamples(r.e.playlist)[1])
       IN  /\ Install(r.e)
           /\ pb' = [pb EXCEPT
                        !.got = << @[1] \o Take(data[1], k), @[2] \o Take(data[2], k) >>,
                        !.fills = IF state = Started THEN @ ELSE @ + 1,
                        !.op = "play_callback",
                        !.held = playlist]
    /\ last' = Call("play_callback", state, NoDevice, NoDevice, FALSE)
    /\ obs' = publish_levels(obs, FALSE)
    /\ UNCHANGED << ctl, rb, probes, controller >>

\* sample counts of the tones requested: one that a callback of two frames
\* consumes exactly and one that it leaves a part of
RetainedToneCounts == { 2, 3 }
\* frame counts of the playback callback
TonePlaybackCounts == { 2 }

\* the engine once the operator has chosen the input card: Stopped, no stream
\* open until the output card is chosen too
InitTones ==
    /\ LET e == set_input_device(instance, SoundCard(0, "a", 2, "ALSA"))
       IN  /\ state = e.state
           /\ input_device = e.input_device
           /\ output_device = e.output_device
           /\ stream_in = e.stream_in
           /\ stream_out = e.stream_out
           /\ capture = e.capture
           /\ openOut = e.openOut
           /\ buffer = e.buffer
           /\ playlist = e.playlist
           /\ last = Call("set_input_device", Stopped, SoundCard(0, "a", 2, "ALSA"),
                          NoDevice, FALSE)
    /\ ctl = Idle
    /\ rb = RbIdle
    /\ AsideIdle

NextTones ==
    \/ \E sample_count \in RetainedToneCounts : QueueTone(sample_count)
    \/ \E frame_count \in TonePlaybackCounts : TonePlayback(frame_count)
    \/ SetOutputDevice(SoundCard(0, "a", 2, "ALSA"))
    \/ DoFadeIn
    \/ DoFadeOut

SpecTones == InitTones /\ [][NextTones]_vars

\* an open playback stream goes on calling back: weak fairness of the
\* playback callback, its guard written out
SpecTonesLive ==
    /\ SpecTones
    /\ \/ []<>(openOut = 0 \/ (state # Started /\ pb.fills >= MaxFills))
       \/ []<><<\E frame_count \in TonePlaybackCounts : TonePlayback(frame_count)>>_vars

\* C31: a playback callback entered in FadeIn or Relaying ends in Relaying and
\* leaves the playlist as it was; a callback that changes the playlist ends in
\* Started; play_tone appends its tone in every state, open stream or not; on
\* each channel the samples played out of the playlist, then the playlist, are
\* the samples of the tones requested; and if from some point on the engine
\* stays in Started with a playback stream open, every sample requested is
\* played
C31_PlaylistConsumedOnlyInStarted ==
    /\ [](last.op = "play_callback" /\ last.from \in {FadeIn, Relaying} =>
            /\ state = Relaying
            /\ playlist = pb.held)
    /\ [](last.op = "play_callback" /\ playlist # pb.held => state = Started)
    /\ [](last.op = "play_tone" =>
            playlist = pb.held \o << ToneSampleBuffer_init(pb.n) >>)
    /\ [](\A c \in 1..STEREO :
            pb.queued[c] = pb.got[c] \o PlaylistSamples(playlist)[c])
    /\ (<>[](state = Started /\ openOut > 0) => <>[](pb.got = pb.queued))

\* the one tone was requested between the callback that ended the fade in and
\* the second callback of the relay, so while the engine relayed; that
\* callback, entered in Relaying, has left it whole in the playlist
C31_Witness ==
    /\ last.op = "play_callback"
    /\ last.from = Relaying
    /\ state = Relaying
    /\ pb.tones = 1
    /\ pb.mixed
    /\ pb.fills = 2
    /\ playlist = pb.held
    /\ PlaylistSamples(playlist) = pb.queued
    /\ Len(pb.queued[1]) > 0

\* the one tone was requested after the first callback of the relay, and the
\* third, which ended the fade out, has played the last of it
C31_WitnessPlayed ==
    /\ last.op = "play_callback"
    /\ last.from = FadeOut
    /\ state = Started
    /\ pb.tones = 1
    /\ pb.mixed
    /\ pb.fills = 3
    /\ pb.got = pb.queued
    /\ Len(pb.got[1]) > 0

\* a tone requested while no stream is open is in the playlist
C31_WitnessNoStream ==
    /\ last.op = "play_tone"
    /\ openOut = 0
    /\ PlaylistSamples(playlist) = pb.queued
    /\ Len(pb.queued[1]) > 0
====
